---- MODULE Spec2Model ----
(***************************************************************************)
(* Model of the fistop service-dispatch engine: the per-service result     *)
(* cache (database.py), the request-id / response correlation protocol     *)
(* between DatabaseManager and the workers, the worker loop, the dummy     *)
(* worker and the Supervisor ("terminator") of ServiceManager (manager.py).*)
(*                                                                         *)
(* One service (service id 0) is modelled.  Payloads and outputs are       *)
(* records so that a single request and a list of requests have the same   *)
(* shape: [list |-> BOOLEAN, v |-> sequence].                               *)
(***************************************************************************)
EXTENDS Integers, Sequences, FiniteSets, TLC

\* ------------------------------------------------------------------ bounds
NumCallers == 2          \* concurrent caller threads (API thread pool)
MaxCalls == 1            \* calls one caller thread makes in a run
MaxThreads == 1          \* worker threads of the service
MaxIndexCalls == 2       \* calls of get_next_index one thread makes in a run
MaxTime == 2             \* clock ticks observed
MaxListLen == 2          \* longest list passed to get_service_list
max_database_size == 3   \* Config.max_database_size, scaled down
max_result_age == 1      \* Config.max_result_age, in clock ticks
MaxTimeouts == 2         \* largest Service.max_timeouts tried
MaxStalls == 3           \* stalls counted for a service that is never stopped
NumAuthServices == 3     \* service ids the tokens may name
MaxServices == 2         \* longest service list in a tokens payload
NumGroupServices == 2    \* services of the service group "g"
MaxLifeCalls == 2        \* start_services / stop_services calls the admin makes
MaxBootCalls == 2        \* shutdown / initialize calls the admin makes
max_request_size == 1    \* ServiceManager.max_request_size, scaled down
max_service_run_time == 1  \* Config.max_service_run_time, in clock ticks

\* -------------------------------------------------------- program constants
TMP_ITER == 20           \* database.py: entries drained per _get_tmp_result
TMP_RETRY == 20          \* database.py: retry count at which an entry self-resolves
\* manager.py get_next_index wraps at 4294967295 (unsigned 32 bit); the model
\* checker's integers are signed 32 bit, so the wrap point is the largest
\* value it can count to.  No run of the model reaches it unless Init starts there.
MAX_COUNTER == 2147483646

Callers == 1..NumCallers
Threads == 1..MaxThreads

VARIABLES
    \* ---- the result cache of the service (DatabaseManager.service_outputs[0])
    now,              \* wall clock (datetime.datetime.now()), in ticks
    service_outputs,  \* the OrderedDict as a sequence of [key, out, ts], oldest first
    lru_order,        \* ghost: cached keys by last use (insert, overwrite, read hit)
    last_evict,       \* ghost: the last eviction: the key evicted and the LRU key then
    last_read,        \* ghost: the last _get_database_result of a dispatch
    \* ---- queues and ledgers
    counter,            \* ServiceManager.counter
    input_q,            \* service_input_queues[0]: items [id, req]
    output_q,           \* service_output_queues[0]: items [id, out]
    tmp_results,        \* DatabaseManager.tmp_results[0]: entries [n, id, out]
    man_request_dicts,  \* ServiceManager.request_dicts[0]: ordered dict as a sequence
    db_request_dicts,   \* DatabaseManager.request_dicts[0]
    garbage_queue,      \* DatabaseManager.garbage_queue: request ids
    man_garbage_queue,  \* ServiceManager.garbage_queue: request ids
    \* ---- caller threads (get_service / get_service_list)
    c_pc,             \* position
    c_calls,          \* calls started so far
    c_request,        \* the request or the list of requests (payload record)
    c_caching,        \* the caching argument
    c_index,          \* get_next_index: the value of self.counter the thread loaded
    c_req_id,         \* req_id (0 models None)
    c_to_request,     \* the payload submitted
    c_unique,         \* get_service_list: unique_responses
    c_ret,            \* what the last call returned
    c_key,            \* inside _save_result: the key being written
    c_out,            \* inside _save_result: the output being written
    c_miss,           \* ghost: the requests whose cache lookup missed
    c_seen,           \* ghost: caching was off and the cache held a fresh entry at the start
    c_sent,           \* ghost: the items this call has put on the input queue
    \* ---- worker threads of the service
    w_pc,             \* position
    w_request,        \* the item taken from the input queue
    w_output,         \* the output computed
    srv_states,       \* service_states[0][w]
    srv_awaiting,     \* service_awaiting[0][w]
    srv_values,       \* service_values[0][w]
    w_taken,          \* ghost: the id of the item taken last
    w_puts,           \* ghost: responses published for the item taken
    put_log,          \* ghost: did every response carry the id of the item taken
    \* ---- dummy workers
    d_pc,             \* position
    d_request,        \* the item taken
    d_taken,          \* ghost: the id of the item taken last
    d_puts,           \* ghost: responses published for the item taken
    d_message,        \* the message the dummy workers were started with
    \* ---- the Supervisor (_terminator) and the service's descriptor
    srv_running,           \* service_running[0].value
    srv_timeout,           \* Service.timeout
    srv_max_timeouts,      \* Service.max_timeouts
    counters,              \* _terminator: counters[0][w]
    srv_timeout_counters,  \* _terminator: srv_timeout_counters[0]
    t_pc,                  \* _terminator: position
    t_thread,              \* _terminator: the worker being examined
    n_restarts,            \* ghost: restarts performed
    stop_ids,              \* ghost: the request ids issued after the service was stopped
    issued,                \* ghost: the request ids get_next_index has returned
    id_clash,              \* ghost: get_next_index returned an id a second time
    \* ---- tokens (DatabaseManager.aman, the tokens file, Config)
    aman,             \* the AuthManager: admins, superusers, groups, users_mixed, users
    tokens_file,      \* the content of the file at Config.tokens_path
    tokens_path,      \* Config.tokens_path
    bypass_user,      \* Config.bypass_user_auth
    a_ret,            \* the "server" message of the last admin call
    last_auth,        \* ghost: the last authorize_user call and its result
    last_op,          \* ghost: the last admin operation on the tokens
    revoked,          \* ghost: <<token, service>> pairs removed and not added again
    \* ---- the life cycle (start_services / stop_services) and the API calls
    running,          \* DatabaseManager.running
    man_running,      \* ServiceManager.running
    l_pc,             \* the admin thread's position in stop_services
    l_op,             \* ghost: the last life-cycle call
    l_ret,            \* what the last life-cycle call returned
    l_calls,          \* ghost: life-cycle calls made so far
    c_msg,            \* the message of the error dict a caller's rejected call returned
    \* ---- the services of the group "g", per service
    g_in,             \* service_input_queues[s]: items [id, req]
    g_out,            \* service_output_queues[s]: the answered items
    g_tmp,            \* tmp_results[s]
    g_ledger,         \* request_dicts[s]: the request ids
    g_cache,          \* service_outputs[s]: the requests that have a cached result
    \* ---- caller threads inside get_group / get_group_list
    gc_pc,            \* position
    gc_name,          \* group_name
    gc_token,         \* token
    gc_request,       \* the request or the list of requests (payload record)
    gc_services,      \* group_services after the authorization filter
    gc_to,            \* to_request per service
    gc_map,           \* srv_map: service -> request id
    gc_done,          \* the services with srv_done true
    gc_keys,          \* the services that have a key in output_dict
    gc_ret,           \* what the last group call returned
    \* ---- the registration of the services (ServiceManager.__init__)
    reg_in,           \* the Service objects in the order they are constructed
    reg_pc,           \* "new", "failed" (an exception left __init__), "ready", "started"
    reg_objects,      \* srv_objects after _sort_services
    reg_names,        \* srv_names after _sort_services
    \* ---- the idle scans of the two garbage collectors
    man_pending,      \* ServiceManager._gb_collector: pending_requests[0], items [id, ts]
    db_pending,       \* DatabaseManager._gb_collector: pending_requests[0], request ids
    man_collected,    \* ghost: the ids whose completion event the collector has processed
    \* ---- get_next_index at full width (a number is its two 16-bit halves)
    nx_counter,       \* ServiceManager.counter
    nx_pc,            \* position of each calling thread inside get_next_index
    nx_index,         \* the value a thread loaded for self.counter += 1
    nx_ret,           \* the value a thread's last call returned
    nx_calls,         \* calls started so far
    nx_last,          \* ghost: the id returned last, by any thread
    nx_raced,         \* ghost: a thread has entered while another was inside
    \* ---- one call of a function of the ServiceManager, looked at on its own
    h_pc,             \* "new" before the call, "done" after it
    h_arg,            \* the arguments of the call
    h_res,            \* what the call returned
    \* ---- shutdown and initialize (the queues are named by their generation)
    initialized,            \* DatabaseManager.initialized
    man_initialized,        \* ServiceManager.initialized
    srv_queues,             \* ServiceManager.srv_queues[0]: the queue pair, or NoQueue
    service_input_queues,   \* DatabaseManager.service_input_queues[0]
    service_output_queues,  \* DatabaseManager.service_output_queues, the whole list
    b_calls,                \* shutdown / initialize calls made
    b_get                   \* how the get_service after them went

cacheVars == <<now, service_outputs, lru_order, last_evict, last_read>>
queueVars == <<counter, input_q, output_q, tmp_results, man_request_dicts,
               db_request_dicts, garbage_queue, man_garbage_queue>>
callerVars == <<c_pc, c_calls, c_request, c_caching, c_index, c_req_id, c_to_request,
                c_unique, c_ret, c_key, c_out, c_miss, c_seen, c_sent>>
workerVars == <<w_pc, w_request, w_output, srv_states, srv_awaiting, srv_values,
                w_taken, w_puts, put_log>>
dummyVars == <<d_pc, d_request, d_taken, d_puts, d_message>>
superVars == <<srv_running, srv_timeout, srv_max_timeouts, counters,
               srv_timeout_counters, t_pc, t_thread, n_restarts, stop_ids,
               issued, id_clash>>
authVars == <<aman, tokens_file, tokens_path, bypass_user, a_ret, last_auth, last_op, revoked>>
lifeVars == <<running, man_running, l_pc, l_op, l_ret, l_calls, c_msg>>
groupVars == <<g_in, g_out, g_tmp, g_ledger, g_cache, gc_pc, gc_name, gc_token,
               gc_request, gc_services, gc_to, gc_map, gc_done, gc_keys, gc_ret>>
regVars == <<reg_in, reg_pc, reg_objects, reg_names>>
scanVars == <<man_pending, db_pending, man_collected>>
indexVars == <<nx_counter, nx_pc, nx_index, nx_ret, nx_calls, nx_last, nx_raced>>
callVars == <<h_pc, h_arg, h_res>>
bootVars == <<initialized, man_initialized, srv_queues, service_input_queues,
              service_output_queues, b_calls, b_get>>
extVars == <<regVars, scanVars, indexVars, callVars, bootVars>>
apiVars == <<authVars, lifeVars, groupVars, extVars>>
vars == <<cacheVars, queueVars, callerVars, workerVars, dummyVars, superVars, apiVars>>

\* ------------------------------------------------------------------ values
Keys == {"a", "b", "c", "d"}
NoKey == "-"
Single(p) == [list |-> FALSE, v |-> <<p>>]
List(ps) == [list |-> TRUE, v |-> ps]
NoPayload == [list |-> FALSE, v |-> <<>>]

\* What run(p) returns for payload p: the service's output for p.
RunOutput(p) == [kind |-> "out", arg |-> p]
NoOut == [kind |-> "none", arg |-> NoKey]
\* A timestamped result as _save_result builds it and the cache stores it.
NullResult == [ts |-> -1, out |-> NoOut]

\* ------------------------------------------------ sequence helpers
RemoveAt(s, i) == SubSeq(s, 1, i - 1) \o SubSeq(s, i + 1, Len(s))
SeqRemove(s, x) == IF \E i \in 1..Len(s) : s[i] = x
                   THEN RemoveAt(s, CHOOSE i \in 1..Len(s) : s[i] = x)
                   ELSE s

\* ------------------------------------------------ the result cache
CacheKeys(c) == {c[i].key : i \in 1..Len(c)}
CacheIndex(c, k) == CHOOSE i \in 1..Len(c) : c[i].key = k
CachePopKey(c, k) == RemoveAt(c, CacheIndex(c, k))
MoveToEnd(c, k) == RemoveAt(c, CacheIndex(c, k)) \o <<c[CacheIndex(c, k)]>>

\* a mutation of IsStale: entries live one tick longer
M_IsStale(ts, t) == t - ts > max_result_age + 1
\* (datetime.now() - result["timestamp"]).total_seconds() > max_result_age
IsStale(ts, t) == t - ts > max_result_age

\* _get_database_result(0, k) at time t on cache c: pops a stale entry and
\* reports a miss, otherwise promotes the entry and returns it.
GetDatabaseResult(c, k, t) ==
    IF k \notin CacheKeys(c)
    THEN [hit |-> FALSE, cache |-> c, res |-> NullResult]
    ELSE LET e == c[CacheIndex(c, k)] IN
         IF IsStale(e.ts, t)
         THEN [hit |-> FALSE, cache |-> CachePopKey(c, k), res |-> NullResult]
         ELSE [hit |-> TRUE, cache |-> MoveToEnd(c, k),
               res |-> [ts |-> e.ts, out |-> e.out]]

\* _save_result, first half: if len(srv_dict) >= max_database_size: popitem(last=False)
SavePop(c) == IF Len(c) >= max_database_size /\ Len(c) > 0 THEN Tail(c) ELSE c

\* _save_result, second half: srv_dict[request] = new_result.  Assigning an
\* existing key of an OrderedDict keeps the key's position.
SaveStore(c, k, out, t) ==
    LET e == [key |-> k, out |-> out, ts |-> t] IN
    IF k \in CacheKeys(c) THEN [c EXCEPT ![CacheIndex(c, k)] = e] ELSE Append(c, e)

\* _save_result run without interruption.
SaveResult(c, k, out, t) == SaveStore(SavePop(c), k, out, t)

\* ghost: the use order after a use of k / after k left the cache
Touch(l, k) == Append(SeqRemove(l, k), k)

NoEvict == [key |-> NoKey, lru |-> NoKey]
NoRead == [key |-> NoKey, hit |-> FALSE, present |-> FALSE, age |-> 0, removed |-> FALSE]
\* ghost: what a _get_database_result(k) at time t on cache c did, r being its result
ReadRecord(c, k, t, r) ==
    [key |-> k, hit |-> r.hit, present |-> k \in CacheKeys(c),
     age |-> IF k \in CacheKeys(c) THEN t - c[CacheIndex(c, k)].ts ELSE 0,
     removed |-> k \notin CacheKeys(r.cache)]

\* ------------------------------------------------ what the service computes
\* The service's run(p): it raises on "bad", returns something that is not a
\* dict on "invalid" (check_result then raises), never returns on "hang".
Raises(p) == p \in {"bad", "invalid"}
Hangs(p) == p = "hang"
ExcOutput == [kind |-> "exc", arg |-> "Service raised exception"]
DummyOutput(message) == [kind |-> "dummy", arg |-> message]
TIMEOUT_MESSAGE == "Service stopped due to too many timeouts."

\* a mutation of ServiceOutput: the exception is not turned into the error
M_ServiceOutput(req) == [list |-> req.list, v |-> [i \in 1..Len(req.v) |-> RunOutput(req.v[i])]]
\* _worker's try/except: run() per element (allow_list False); an exception
\* anywhere gives the uniform error, one copy per element for a list.
ServiceOutput(req) ==
    IF \E i \in 1..Len(req.v) : Raises(req.v[i])
    THEN [list |-> req.list, v |-> [i \in 1..Len(req.v) |-> ExcOutput]]
    ELSE [list |-> req.list, v |-> [i \in 1..Len(req.v) |-> RunOutput(req.v[i])]]
ServiceHangs(req) == \E i \in 1..Len(req.v) : Hangs(req.v[i])

\* _dummy_worker's output for an item.
DummyServiceOutput(req, message) ==
    [list |-> req.list, v |-> [i \in 1..Len(req.v) |-> DummyOutput(message)]]

\* ------------------------------------------------ request_dicts (ordered dicts)
LedgerIds(l) == {l[i].id : i \in 1..Len(l)}
LedgerIndex(l, id) == CHOOSE i \in 1..Len(l) : l[i].id = id
LedgerGet(l, id) == l[LedgerIndex(l, id)].req
LedgerSet(l, id, req) ==
    IF id \in LedgerIds(l) THEN [l EXCEPT ![LedgerIndex(l, id)] = [id |-> id, req |-> req]]
    ELSE Append(l, [id |-> id, req |-> req])
LedgerDel(l, id) == IF id \in LedgerIds(l) THEN RemoveAt(l, LedgerIndex(l, id)) ELSE l

\* ------------------------------------------------ correlation of responses
Min2(a, b) == IF a <= b THEN a ELSE b
\* for request, output in zip(requests, outputs): _save_result(...), from index i
RECURSIVE SaveZip(_, _, _, _, _)
SaveZip(c, reqs, outs, t, i) ==
    IF i > Min2(Len(reqs), Len(outs)) THEN c
    ELSE SaveZip(SaveResult(c, reqs[i], outs[i], t), reqs, outs, t, i + 1)
ZipResults(reqs, outs, t) ==
    [i \in 1..Min2(Len(reqs), Len(outs)) |-> [ts |-> t, out |-> outs[i]]]

NoReturn == [has |-> FALSE, raised |-> FALSE, shape |-> "none", val |-> <<>>]
\* the value a lookup hands back: one dict, or a list of dicts
DictReturn(r) == [has |-> TRUE, raised |-> FALSE, shape |-> "dict", val |-> <<r>>]
ListReturn(rs) == [has |-> rs # <<>>, raised |-> FALSE, shape |-> "list", val |-> rs]
\* srv_dict[request] = ... with a list as the key: TypeError
Raised == [has |-> FALSE, raised |-> TRUE, shape |-> "none", val |-> <<>>]

\* The response (id, out) matches the caller's request id: save and return it.
\* isinstance(out, list) decides how it is saved, whatever the request is.
Matched(c, request, out, t) ==
    IF out.list
    THEN [cache |-> SaveZip(c, request.v, out.v, t, 1),
          ret |-> ListReturn(ZipResults(request.v, out.v, t))]
    ELSE IF request.list
         THEN [cache |-> SavePop(c), ret |-> Raised]
         ELSE [cache |-> SaveResult(c, request.v[1], out.v[1], t),
               ret |-> DictReturn([ts |-> t, out |-> out.v[1]])]

\* a mutation of SelfResolve: the entry is dropped whatever the ledger holds
M_SelfResolve(c, ledger, e, t) == c
\* _get_tmp_result, retry >= 20: the entry resolves itself into the cache through
\* the ledger (or is dropped when the ledger no longer knows the id).
SelfResolve(c, ledger, e, t) ==
    IF e.id \notin LedgerIds(ledger) THEN c
    ELSE LET req == LedgerGet(ledger, e.id) IN
         IF req.list THEN SaveZip(c, req.v, e.out.v, t, 1)
         ELSE SaveResult(c, req.v[1], e.out.v[1], t)

\* _get_tmp_result: drain up to n entries of tmp queue q; kept are the entries
\* to put back.  Returns the queue, the cache and what the caller gets.
RECURSIVE GetTmpResult(_, _, _, _, _, _, _, _)
GetTmpResult(n, q, kept, c, req_id, request, ledger, t) ==
    IF n = 0 \/ q = <<>>
    THEN [q |-> q \o kept, cache |-> c, ret |-> NoReturn]
    ELSE LET e == [Head(q) EXCEPT !.n = @ + 1] IN
         IF e.n >= TMP_RETRY
         THEN GetTmpResult(n - 1, Tail(q), kept, SelfResolve(c, ledger, e, t),
                           req_id, request, ledger, t)
         ELSE IF e.id = req_id
              THEN LET m == Matched(c, request, e.out, t) IN
                   IF m.ret.raised
                   THEN [q |-> Tail(q), cache |-> m.cache, ret |-> m.ret]
                   ELSE [q |-> Tail(q) \o kept, cache |-> m.cache,
                         ret |-> IF Len(m.ret.val) = 1 THEN DictReturn(m.ret.val[1])
                                 ELSE m.ret]
              ELSE GetTmpResult(n - 1, Tail(q), Append(kept, e), c,
                                req_id, request, ledger, t)

\* ------------------------------------------------ get_service_list helpers
\* a mutation of UniqueRequests: no deduplication
M_UniqueRequests(rs) == rs
\* unique_requests: the distinct requests in first-occurrence order
RECURSIVE UniqueRequests(_)
UniqueRequests(rs) ==
    IF rs = <<>> THEN <<>>
    ELSE LET u == UniqueRequests(SubSeq(rs, 1, Len(rs) - 1))
             r == rs[Len(rs)] IN
         IF \E i \in 1..Len(u) : u[i] = r THEN u ELSE Append(u, r)
\* dup_map[i]: the index in unique_requests of requests[i]
DupMap(rs, i) == CHOOSE j \in 1..Len(UniqueRequests(rs)) : UniqueRequests(rs)[j] = rs[i]

\* the cache lookups of the unique requests, in order, from index i
RECURSIVE LookupAll(_, _, _, _, _)
LookupAll(c, uniq, caching, t, i) ==
    IF i > Len(uniq) THEN [cache |-> c, resp |-> <<>>]
    ELSE LET r == IF caching THEN GetDatabaseResult(c, uniq[i], t)
                  ELSE [hit |-> FALSE, cache |-> c, res |-> NullResult]
             rest == LookupAll(r.cache, uniq, caching, t, i + 1) IN
         [cache |-> rest.cache, resp |-> <<r.res>> \o rest.resp]
\* to_request: the unique requests whose lookup gave None
ToRequest(uniq, resp) ==
    LET F[i \in 0..Len(uniq)] ==
          IF i = 0 THEN <<>>
          ELSE IF resp[i] = NullResult THEN Append(F[i - 1], uniq[i]) ELSE F[i - 1]
    IN F[Len(uniq)]

\* The mapping loop at the end of get_service_list, from response index i:
\* uresp is unique_responses, k is db_counter.  results[k] on a dict is a
\* KeyError, which is not caught; past the end of a list it is an IndexError,
\* which is.
RECURSIVE MapResponses(_, _, _, _, _, _)
MapResponses(rs, uresp, results, shape, k, i) ==
    IF i > Len(rs) THEN [raised |-> FALSE, response |-> <<>>]
    ELSE LET u == DupMap(rs, i) IN
         IF uresp[u] # NullResult
         THEN LET rest == MapResponses(rs, uresp, results, shape, k, i + 1) IN
              [raised |-> rest.raised, response |-> <<uresp[u]>> \o rest.response]
         ELSE IF shape = "dict" THEN [raised |-> TRUE, response |-> <<>>]
         ELSE IF k + 1 > Len(results)
         THEN LET rest == MapResponses(rs, uresp, results, shape, k, i + 1) IN
              [raised |-> rest.raised, response |-> <<NullResult>> \o rest.response]
         ELSE LET filled == [uresp EXCEPT ![u] = results[k + 1]]
                  rest == MapResponses(rs, filled, results, shape, k + 1, i + 1) IN
              [raised |-> rest.raised, response |-> <<filled[u]>> \o rest.response]

\* ================================================ AuthManager (utility.py)
\* Tokens stand for strings tested against Config.token_regex
\* ("[A-Za-z0-9]{10,}$"): the well-formed ones match it, "short" does not.
\* "USER000001" differs from "user000001" by case only.
UserTokens == {"user000001", "USER000001"}
SuperTokens == {"super00001", "user000001"}
AdminTokens == {"admin00001"}
RootAdmin == "admin00000"
RootSuperuser == "root000001"
MalformedTokens == {"short"}
WellFormedTokens == UserTokens \cup SuperTokens \cup AdminTokens \cup {RootAdmin, RootSuperuser}
AllTokens == WellFormedTokens \cup MalformedTokens
GroupNames == {"g"}
AuthServices == 0..(NumAuthServices - 1)

\* validate_token_format: re.match(token_regex, token)
ValidateTokenFormat(token) == token \in WellFormedTokens
\* str.lower, which configparser applies to every option name it reads
Lower(s) == IF s = "USER000001" THEN "user000001" ELSE s
\* str.isdigit on a group name
IsDigit(s) == s \in {"0", "1", "7"}

\* an entry of a user's service list: a service id or a group name
Srv(i) == [kind |-> "srv", id |-> i, name |-> ""]
Grp(g) == [kind |-> "grp", id |-> -1, name |-> g]
ServiceItems == {Srv(i) : i \in AuthServices} \cup {Grp(g) : g \in GroupNames}

\* Python dicts as functions
EmptyDict == [k \in {} |-> <<>>]
DictSet(d, k, v) == [x \in (DOMAIN d) \cup {k} |-> IF x = k THEN v ELSE d[x]]
DictPop(d, k) == [x \in (DOMAIN d) \ {k} |-> d[x]]
Range(s) == {s[i] : i \in DOMAIN s}
\* a list that iterates a set of small ints: ascending
RECURSIVE SortedSeq(_)
SortedSeq(S) ==
    IF S = {} THEN <<>>
    ELSE LET m == CHOOSE x \in S : \A y \in S : x <= y IN <<m>> \o SortedSeq(S \ {m})

\* the conversion of a user's mixed list to service ids (group names expanded)
ExpandServices(grps, items) ==
    UNION {IF items[i].kind = "srv" THEN {items[i].id} ELSE Range(grps[items[i].name])
           : i \in 1..Len(items)}

Failed(a) == [ok |-> FALSE, aman |-> a]
Done(a) == [ok |-> TRUE, aman |-> a]

add_group(a, group_name, group_services) ==
    IF IsDigit(group_name) THEN Failed(a)
    ELSE Done([a EXCEPT !.groups = DictSet(@, group_name, group_services)])

remove_group(a, group_name) ==
    IF group_name \notin DOMAIN a.groups THEN Failed(a)
    ELSE IF \E t \in DOMAIN a.users_mixed : Grp(group_name) \in Range(a.users_mixed[t])
    THEN Failed(a)
    ELSE Done([a EXCEPT !.groups = DictPop(@, group_name)])

add_user(a, token, user_services) ==
    IF ~ValidateTokenFormat(token) THEN Failed(a)
    ELSE IF \E i \in 1..Len(user_services) :
                /\ user_services[i].kind = "grp"
                /\ user_services[i].name \notin DOMAIN a.groups
    THEN Failed(a)
    ELSE Done([a EXCEPT !.users_mixed = DictSet(@, token, user_services),
                        !.users = DictSet(@, token, ExpandServices(a.groups, user_services))])

remove_user(a, token) ==
    IF token \notin DOMAIN a.users THEN Failed(a)
    ELSE Done([a EXCEPT !.users = DictPop(@, token)])

add_superuser(a, token) ==
    IF ~ValidateTokenFormat(token) THEN Failed(a)
    ELSE IF token \in Range(a.superusers) THEN Done(a)
    ELSE Done([a EXCEPT !.superusers = Append(@, token)])

remove_superuser(a, token) ==
    IF ~ValidateTokenFormat(token) \/ token \notin Range(a.superusers) THEN Failed(a)
    ELSE Done([a EXCEPT !.superusers = SeqRemove(@, token)])

add_admin(a, token) ==
    IF ~ValidateTokenFormat(token) THEN Failed(a)
    ELSE IF token \in Range(a.admins) THEN Done(a)
    ELSE Done([a EXCEPT !.admins = Append(@, token)])

remove_admin(a, token) ==
    IF ~ValidateTokenFormat(token) \/ token \notin Range(a.admins) THEN Failed(a)
    ELSE Done([a EXCEPT !.admins = SeqRemove(@, token)])

\* a mutation of authorize_user: the superuser test is left out
M_authorize_user(a, bypass, user_token, service_id) ==
    IF bypass THEN TRUE
    ELSE IF ~ValidateTokenFormat(user_token) THEN FALSE
    ELSE user_token \in DOMAIN a.users /\ service_id \in a.users[user_token]
authorize_user(a, bypass, user_token, service_id) ==
    IF bypass THEN TRUE
    ELSE IF ~ValidateTokenFormat(user_token) THEN FALSE
    ELSE IF user_token \in Range(a.superusers) THEN TRUE
    ELSE IF user_token \notin DOMAIN a.users THEN FALSE
    ELSE service_id \in a.users[user_token]

\* a mutation of get_user_authorized: the list is not filtered
M_get_user_authorized(a, bypass, user_token, service_ids) == service_ids

\* the sublist of service_ids the token is authorized for
get_user_authorized(a, bypass, user_token, service_ids) ==
    IF bypass THEN service_ids
    ELSE IF ~ValidateTokenFormat(user_token) THEN <<>>
    ELSE IF user_token \in Range(a.superusers) THEN service_ids
    ELSE IF user_token \notin DOMAIN a.users THEN <<>>
    ELSE SelectSeq(service_ids, LAMBDA s : s \in a.users[user_token])

authorize_admin(a, admin_token) ==
    ValidateTokenFormat(admin_token) /\ admin_token \in Range(a.admins)

\* ---- the tokens file
JsonPath == "settings/tokens.json"
IniPath == "settings/tokens.ini"
\* get_dict_tokens: what save_tokens dumps into a .json file
get_dict_tokens(a) ==
    [groups |-> a.groups, users |-> a.users_mixed,
     superusers |-> a.superusers, admins |-> a.admins]
\* get_ini_tokens: what save_tokens writes into an .ini file; the users
\* section lists the expanded service ids
get_ini_tokens(a) ==
    [groups |-> a.groups,
     users |-> [t \in DOMAIN a.users |->
                   [i \in 1..Cardinality(a.users[t]) |-> Srv(SortedSeq(a.users[t])[i])]],
     superusers |-> a.superusers, admins |-> a.admins]
save_tokens(path, a) == IF path = JsonPath THEN get_dict_tokens(a) ELSE get_ini_tokens(a)

\* option names that collide once lower-cased: DuplicateOptionError
Collide(names) == \E x, y \in names : x # y /\ Lower(x) = Lower(y)
LowerKeys(d) ==
    [k \in {Lower(x) : x \in DOMAIN d} |-> d[CHOOSE x \in DOMAIN d : Lower(x) = k]]
LowerSeq(s) == [i \in 1..Len(s) |-> Lower(s[i])]
\* _parse_file: json.loads gives back the dumped dict; configparser lower-cases
\* the option names of an .ini file
ParseOk(path, f) ==
    \/ path = JsonPath
    \/ ~(\/ Collide(DOMAIN f.groups) \/ Collide(DOMAIN f.users)
         \/ Collide(Range(f.superusers)) \/ Collide(Range(f.admins)))
ParseFile(path, f) ==
    IF path = JsonPath THEN f
    ELSE [groups |-> LowerKeys(f.groups), users |-> LowerKeys(f.users),
          superusers |-> LowerSeq(f.superusers), admins |-> LowerSeq(f.admins)]

\* AuthManager.__init__ on a parsed tokens dict: raises on a malformed token
\* and on a user naming a group that does not exist
LoadOk(d) ==
    /\ \A t \in Range(d.admins) \cup Range(d.superusers) \cup DOMAIN d.users :
           ValidateTokenFormat(t)
    /\ \A g \in DOMAIN d.groups : ~IsDigit(g)
    /\ \A t \in DOMAIN d.users : \A i \in 1..Len(d.users[t]) :
           d.users[t][i].kind = "grp" => d.users[t][i].name \in DOMAIN d.groups
Load(d) ==
    [admins |-> d.admins, superusers |-> d.superusers, groups |-> d.groups,
     users_mixed |-> d.users,
     users |-> [t \in DOMAIN d.users |-> ExpandServices(d.groups, d.users[t])]]
\* AuthManager(file_tokens=path): does it load, and what it holds then
FileOk(path, f) == ParseOk(path, f) /\ LoadOk(ParseFile(path, f))
LoadFile(path, f) == Load(ParseFile(path, f))

\* get_config_diff is not empty: some list or dict differs from the saved one
ConfigDiffers(a, saved) ==
    \/ Range(a.superusers) # Range(saved.superusers)
    \/ Range(a.admins) # Range(saved.admins)
    \/ a.groups # saved.groups
    \/ a.users # saved.users

\* the tokens file the server is started with
InitialTokens ==
    [groups |-> EmptyDict, users |-> EmptyDict,
     superusers |-> <<RootSuperuser>>, admins |-> <<RootAdmin>>]

\* the bodies of PUT and DELETE /server/tokens/ (TokensModel)
NoTokens == [group |-> "", group_services |-> <<>>, user |-> "", user_services |-> <<>>,
             superuser |-> "", admin |-> ""]
GroupServiceLists == UNION {[1..n -> AuthServices] : n \in 0..MaxServices}
UserServiceLists == UNION {[1..n -> ServiceItems] : n \in 0..MaxServices}
TokenPayloads ==
    {p \in [group : GroupNames \cup {""}, group_services : GroupServiceLists,
            user : UserTokens \cup {""}, user_services : UserServiceLists,
            superuser : SuperTokens \cup {""}, admin : AdminTokens \cup {""}] :
        /\ p.group = "" => p.group_services = <<>>
        /\ p.user = "" => p.user_services = <<>>}
NothingProvided(p) == p = NoTokens

\* what the last authorize_user call was asked and answered
NoAuth == [token |-> "", service |-> -1, result |-> FALSE]
\* the last admin operation on the tokens: its payload, whether every part
\* succeeded, and for the group named in a delete: did it exist, did an
\* existing user reference it, was it removed
NoOp == [op |-> "none", payload |-> NoTokens, ok |-> FALSE,
         existed |-> FALSE, referenced |-> FALSE, removed |-> FALSE]

\* the server was started with tokens file f at path, bypass_user_auth = bypass
InitAuth(path, bypass, f) ==
    /\ tokens_path = path
    /\ bypass_user = bypass
    /\ tokens_file = f
    /\ aman = LoadFile(path, f)
    /\ a_ret = "none"
    /\ last_auth = NoAuth
    /\ last_op = NoOp
    /\ revoked = {}


\* ---------------------------------------------------------------- Init
NoReturned == [state |-> "none", val |-> <<>>, src |-> "none",
               req |-> NoPayload, id |-> 0]
NoItem == [id |-> 0, req |-> NoPayload]
NoOutput == [list |-> FALSE, v |-> <<>>]

InitCache ==
    /\ now = 0
    /\ service_outputs = <<>>
    /\ lru_order = <<>>
    /\ last_evict = NoEvict
    /\ last_read = NoRead

InitQueues ==
    /\ counter = 0
    /\ input_q = <<>>
    /\ output_q = <<>>
    /\ tmp_results = <<>>
    /\ man_request_dicts = <<>>
    /\ db_request_dicts = <<>>
    /\ garbage_queue = <<>>
    /\ man_garbage_queue = <<>>

InitCallers ==
    /\ c_pc = [c \in Callers |-> "idle"]
    /\ c_calls = [c \in Callers |-> 0]
    /\ c_request = [c \in Callers |-> NoPayload]
    /\ c_caching = [c \in Callers |-> TRUE]
    /\ c_index = [c \in Callers |-> 0]
    /\ c_req_id = [c \in Callers |-> 0]
    /\ c_to_request = [c \in Callers |-> NoPayload]
    /\ c_unique = [c \in Callers |-> <<>>]
    /\ c_ret = [c \in Callers |-> NoReturned]
    /\ c_key = [c \in Callers |-> NoKey]
    /\ c_out = [c \in Callers |-> NoOut]
    /\ c_miss = [c \in Callers |-> {}]
    /\ c_seen = [c \in Callers |-> FALSE]
    /\ c_sent = [c \in Callers |-> <<>>]

\* ServiceManager.start(): the workers are started, none has taken an item.
InitWorkers ==
    /\ w_pc = [w \in Threads |-> "top"]
    /\ w_request = [w \in Threads |-> NoItem]
    /\ w_output = [w \in Threads |-> NoOutput]
    /\ srv_states = [w \in Threads |-> TRUE]
    /\ srv_awaiting = [w \in Threads |-> FALSE]
    /\ srv_values = [w \in Threads |-> 0]
    /\ w_taken = [w \in Threads |-> 0]
    /\ w_puts = [w \in Threads |-> 0]
    /\ put_log = TRUE

InitDummy ==
    /\ d_pc = [d \in Threads |-> "none"]
    /\ d_request = [d \in Threads |-> NoItem]
    /\ d_taken = [d \in Threads |-> 0]
    /\ d_puts = [d \in Threads |-> 0]
    /\ d_message = ""

\* The service runs with Service.timeout = timeout, Service.max_timeouts = max_timeouts.
InitSuper(timeout, max_timeouts) ==
    /\ srv_running = TRUE
    /\ srv_timeout = timeout
    /\ srv_max_timeouts = max_timeouts
    /\ counters = [w \in Threads |-> 0]
    /\ srv_timeout_counters = 0
    /\ t_pc = "check"
    /\ t_thread = 1
    /\ n_restarts = 0
    /\ stop_ids = {}
    /\ issued = {}
    /\ id_clash = FALSE

engineVars == <<queueVars, workerVars, dummyVars, superVars>>

\* ------------------------------------------- cache operations of a thread
\* A caller thread reads the cache: _get_database_result.
CacheRead(c) ==
    /\ c_pc[c] = "idle"
    /\ \E k \in Keys :
        LET r == GetDatabaseResult(service_outputs, k, now) IN
        /\ service_outputs' = r.cache
        /\ lru_order' = IF r.hit THEN Touch(lru_order, k) ELSE SeqRemove(lru_order, k)
        /\ last_read' = ReadRecord(service_outputs, k, now, r)
    /\ UNCHANGED <<now, last_evict, callerVars, engineVars>>
    /\ UNCHANGED apiVars

\* A caller thread enters _save_result: the size check and the eviction.
CacheSaveBegin(c) ==
    /\ c_pc[c] = "idle"
    /\ \E k \in Keys :
        /\ c_key' = [c_key EXCEPT ![c] = k]
        /\ c_out' = [c_out EXCEPT ![c] = RunOutput(k)]
    /\ c_pc' = [c_pc EXCEPT ![c] = "saving"]
    /\ service_outputs' = SavePop(service_outputs)
    /\ IF service_outputs' # service_outputs
       THEN /\ last_evict' = [key |-> Head(service_outputs).key, lru |-> Head(lru_order)]
            /\ lru_order' = SeqRemove(lru_order, Head(service_outputs).key)
       ELSE UNCHANGED <<last_evict, lru_order>>
    /\ UNCHANGED <<now, last_read, c_calls, c_request, c_caching, c_index, c_req_id,
                   c_to_request, c_unique, c_ret, c_miss, c_seen, c_sent, engineVars>>
    /\ UNCHANGED apiVars

\* The thread finishes _save_result: the store.
CacheSaveEnd(c) ==
    /\ c_pc[c] = "saving"
    /\ service_outputs' = SaveStore(service_outputs, c_key[c], c_out[c], now)
    /\ lru_order' = Touch(lru_order, c_key[c])
    /\ c_pc' = [c_pc EXCEPT ![c] = "idle"]
    /\ UNCHANGED <<now, last_evict, last_read, c_calls, c_request, c_caching, c_index,
                   c_req_id, c_to_request, c_unique, c_ret, c_key, c_out, c_miss, c_seen,
                   c_sent, engineVars>>
    /\ UNCHANGED apiVars

NextCache ==
    \E c \in Callers : CacheRead(c) \/ CacheSaveBegin(c) \/ CacheSaveEnd(c)

NextCacheSeq == CacheRead(1) \/ CacheSaveBegin(1) \/ CacheSaveEnd(1)

InitEngine(timeout, max_timeouts) ==
    InitQueues /\ InitWorkers /\ InitDummy /\ InitSuper(timeout, max_timeouts)

\* ======================================= service groups (get_group, get_group_list)
\* The services 1..NumGroupServices carry the group "g" in their descriptor.
\* Their queues, ledgers and caches are kept per service; a worker of such a
\* service answers a request in one step, and a cache holds the requests it
\* has a result for.
GroupServiceIds == 1..NumGroupServices
\* the services the server runs: service 0, whose engine is modelled above,
\* and the services of the group
RegisteredServices == 0..NumGroupServices
\* Service.groups of the service's descriptor
ServiceGroups(s) == IF s \in GroupServiceIds THEN {"g"} ELSE {}
\* ServiceManager.get_group_services: the services of the group, by service id
get_group_services(group_name) ==
    SelectSeq(SortedSeq(RegisteredServices), LAMBDA s : group_name \in ServiceGroups(s))

NoGroupReturn == [state |-> "none", keys |-> {}]

InitGroup ==
    /\ g_in = [s \in GroupServiceIds |-> <<>>]
    /\ g_out = [s \in GroupServiceIds |-> <<>>]
    /\ g_tmp = [s \in GroupServiceIds |-> <<>>]
    /\ g_ledger = [s \in GroupServiceIds |-> {}]
    /\ g_cache = [s \in GroupServiceIds |-> {}]
    /\ gc_pc = [c \in Callers |-> "idle"]
    /\ gc_name = [c \in Callers |-> ""]
    /\ gc_token = [c \in Callers |-> ""]
    /\ gc_request = [c \in Callers |-> NoPayload]
    /\ gc_services = [c \in Callers |-> <<>>]
    /\ gc_to = [c \in Callers |-> [s \in GroupServiceIds |-> NoPayload]]
    /\ gc_map = [c \in Callers |-> [s \in GroupServiceIds |-> 0]]
    /\ gc_done = [c \in Callers |-> {}]
    /\ gc_keys = [c \in Callers |-> {}]
    /\ gc_ret = [c \in Callers |-> NoGroupReturn]

\* ---- the registration and the collectors' scans in their state after start-up
\* a Service object: service_id -1 models None
Descriptor(service_id, threads, processes, timeout, max_timeouts) ==
    [service_id |-> service_id, threads |-> threads, processes |-> processes,
     timeout |-> timeout, max_timeouts |-> max_timeouts]
\* the service the engine runs: one worker thread, no explicit id
DefaultService == Descriptor(-1, 1, 0, 0, 0)
\* a number of more than 31 bits: hi * 65536 + lo
Wide(hi, lo) == [hi |-> hi, lo |-> lo]
\* ServiceManager.__init__: self.counter = 0, no get_next_index under way
InitIndex(c0) ==
    /\ nx_counter = c0
    /\ nx_pc = [t \in Callers |-> "idle"]
    /\ nx_index = [t \in Callers |-> Wide(0, 0)]
    /\ nx_ret = [t \in Callers |-> Wide(0, 0)]
    /\ nx_calls = [t \in Callers |-> 0]
    /\ nx_last = c0
    /\ nx_raced = FALSE
\* no call is looked at on its own
NoCall == [op |-> "none"]
InitCall ==
    /\ h_pc = "done"
    /\ h_arg = NoCall
    /\ h_res = NoCall
InitScan ==
    /\ man_pending = <<>>
    /\ db_pending = {}
    /\ man_collected = {}
    /\ InitIndex(Wide(0, 0))
    /\ InitCall
InitExt ==
    /\ reg_in = <<DefaultService>>
    /\ reg_pc = "started"
    /\ reg_objects = <<[DefaultService EXCEPT !.service_id = 0]>>
    /\ reg_names = <<1>>
    /\ InitScan

\* DatabaseManager.__init__: initialize() and start_services() have run
InitLife ==
    /\ initialized = TRUE
    /\ man_initialized = TRUE
    /\ srv_queues = 1
    /\ service_input_queues = 1
    /\ service_output_queues = <<1>>
    /\ b_calls = 0
    /\ b_get = "none"
    /\ running = TRUE
    /\ man_running = TRUE
    /\ l_pc = "idle"
    /\ l_op = "none"
    /\ l_ret = FALSE
    /\ l_calls = 0
    /\ c_msg = [c \in Callers |-> ""]

\* the tokens the server is started with; user authorization is on
InitApi == InitAuth(IniPath, FALSE, InitialTokens) /\ InitLife /\ InitGroup /\ InitExt

\* the state after start(): empty cache and queues, the workers started, no Supervisor
Init == InitCache /\ InitCallers /\ InitEngine(0, 0) /\ InitApi

\* Concurrent caller threads reading and writing one service's cache.
SpecCache == Init /\ [][NextCache]_vars

\* One thread reading and writing the cache: every _save_result runs alone.
SpecCacheSeq == Init /\ [][NextCacheSeq]_vars

\* ==================================================== the dispatch engine
\* In the engine's actions _save_result runs without interruption (SaveResult);
\* its interleavings are the subject of SpecCache.  The ghosts lru_order and
\* last_evict are maintained by the cache specifications only.

Miss(c) == [hit |-> FALSE, cache |-> c, res |-> NullResult]
\* get_next_index, first half: the wrap test and the load of self.counter
LoadCounter == IF counter >= MAX_COUNTER THEN 0 ELSE counter

\* What the call returns when its loop ended with ret (from src); a list call
\* maps the results back onto the original requests first.
ReturnOf(c, ret, src) ==
    LET base == [state |-> "OK", val |-> ret.val, src |-> src,
                 req |-> c_request[c], id |-> c_req_id[c]] IN
    IF ret.raised THEN [base EXCEPT !.state = "RAISE", !.val = <<>>]
    ELSE IF ~c_request[c].list THEN base
    ELSE LET m == MapResponses(c_request[c].v, c_unique[c], ret.val, ret.shape, 0, 1) IN
         IF m.raised THEN [base EXCEPT !.state = "RAISE", !.val = <<>>]
         ELSE [base EXCEPT !.val = m.response]

\* get_service / get_service_list return: garbage_queue.put((0, req_id)), return.
\* An exception leaves the call before the put.
Return(c, ret, src) ==
    /\ c_ret' = [c_ret EXCEPT ![c] = ReturnOf(c, ret, src)]
    /\ garbage_queue' = IF ReturnOf(c, ret, src).state = "RAISE" THEN garbage_queue
                        ELSE Append(garbage_queue, c_req_id[c])
    /\ c_pc' = [c_pc EXCEPT ![c] = "idle"]

\* the periodic is_pending check failed: the call returns state ERROR
Incomplete(c) ==
    /\ c_ret' = [c_ret EXCEPT ![c] =
                   [ReturnOf(c, ListReturn(<<>>), "none") EXCEPT
                        !.state = "ERROR",
                        !.val = IF c_request[c].list THEN @ ELSE <<>>]]
    /\ garbage_queue' = Append(garbage_queue, c_req_id[c])
    /\ c_pc' = [c_pc EXCEPT ![c] = "idle"]

\* get_service(0, p, caching) up to the load of the counter in get_next_index.
GetServiceCall(c, p, caching) ==
    /\ c_pc[c] = "idle"
    /\ c_calls[c] < MaxCalls
    /\ c_calls' = [c_calls EXCEPT ![c] = @ + 1]
    /\ c_request' = [c_request EXCEPT ![c] = Single(p)]
    /\ c_caching' = [c_caching EXCEPT ![c] = caching]
    /\ c_req_id' = [c_req_id EXCEPT ![c] = 0]
    /\ c_to_request' = [c_to_request EXCEPT ![c] = Single(p)]
    /\ c_unique' = [c_unique EXCEPT ![c] = <<>>]
    /\ c_sent' = [c_sent EXCEPT ![c] = <<>>]
    /\ LET r == IF caching THEN GetDatabaseResult(service_outputs, p, now)
                ELSE Miss(service_outputs) IN
       /\ service_outputs' = r.cache
       /\ last_read' = IF caching THEN ReadRecord(service_outputs, p, now, r) ELSE last_read
       /\ c_miss' = [c_miss EXCEPT ![c] = IF r.hit THEN {} ELSE {p}]
       /\ c_seen' = [c_seen EXCEPT ![c] =
                       ~caching /\ GetDatabaseResult(service_outputs, p, now).hit]
       /\ IF r.hit
          THEN /\ c_ret' = [c_ret EXCEPT ![c] =
                              [state |-> "OK", val |-> <<r.res>>, src |-> "cache",
                               req |-> Single(p), id |-> 0]]
               /\ UNCHANGED <<c_pc, counter, c_index>>
          ELSE /\ c_ret' = [c_ret EXCEPT ![c] = NoReturned]
               /\ counter' = LoadCounter
               /\ c_index' = [c_index EXCEPT ![c] = LoadCounter]
               /\ c_pc' = [c_pc EXCEPT ![c] = "gni_store"]
    /\ UNCHANGED <<now, lru_order, last_evict, input_q, output_q, tmp_results,
                   man_request_dicts, db_request_dicts, garbage_queue,
                   man_garbage_queue, c_key, c_out, workerVars, dummyVars, superVars>>
    /\ UNCHANGED apiVars

\* get_service_list(0, rs, caching) up to the load of the counter: dedup, the
\* cache lookups, to_request; with nothing to request it returns at once.
GetServiceListCall(c, rs, caching) ==
    /\ c_pc[c] = "idle"
    /\ c_calls[c] < MaxCalls
    /\ c_calls' = [c_calls EXCEPT ![c] = @ + 1]
    /\ c_request' = [c_request EXCEPT ![c] = List(rs)]
    /\ c_caching' = [c_caching EXCEPT ![c] = caching]
    /\ c_req_id' = [c_req_id EXCEPT ![c] = 0]
    /\ c_sent' = [c_sent EXCEPT ![c] = <<>>]
    /\ c_seen' = [c_seen EXCEPT ![c] = FALSE]
    /\ LET uniq == UniqueRequests(rs)
           look == LookupAll(service_outputs, uniq, caching, now, 1)
           to_request == ToRequest(uniq, look.resp) IN
       /\ service_outputs' = look.cache
       /\ c_unique' = [c_unique EXCEPT ![c] = look.resp]
       /\ c_to_request' = [c_to_request EXCEPT ![c] = List(to_request)]
       /\ c_miss' = [c_miss EXCEPT ![c] =
                       {uniq[i] : i \in {j \in 1..Len(uniq) : look.resp[j] = NullResult}}]
       /\ IF to_request = <<>>
          THEN /\ c_ret' = [c_ret EXCEPT ![c] =
                    [state |-> "OK", src |-> "cache", req |-> List(rs), id |-> 0,
                     val |-> MapResponses(rs, look.resp, <<>>, "list", 0, 1).response]]
               /\ garbage_queue' = Append(garbage_queue, 0)
               /\ UNCHANGED <<c_pc, counter, c_index>>
          ELSE /\ c_ret' = [c_ret EXCEPT ![c] = NoReturned]
               /\ counter' = LoadCounter
               /\ c_index' = [c_index EXCEPT ![c] = LoadCounter]
               /\ c_pc' = [c_pc EXCEPT ![c] = "gni_store"]
               /\ UNCHANGED garbage_queue
    /\ UNCHANGED <<now, lru_order, last_evict, last_read, input_q, output_q, tmp_results,
                   man_request_dicts, db_request_dicts, man_garbage_queue,
                   c_key, c_out, workerVars, dummyVars, superVars>>
    /\ UNCHANGED apiVars

\* get_next_index, second half of self.counter += 1: the store.
GniStore(c) ==
    /\ c_pc[c] = "gni_store"
    /\ counter' = c_index[c] + 1
    /\ c_pc' = [c_pc EXCEPT ![c] = "gni_return"]
    /\ UNCHANGED <<cacheVars, input_q, output_q, tmp_results, man_request_dicts,
                   db_request_dicts, garbage_queue, man_garbage_queue,
                   c_calls, c_request, c_caching, c_index, c_req_id, c_to_request,
                   c_unique, c_ret, c_key, c_out, c_miss, c_seen, c_sent,
                   workerVars, dummyVars, superVars>>
    /\ UNCHANGED apiVars

\* get_next_index: return self.counter; _run_service_quick: the put on the input queue.
GniReturn(c) ==
    /\ c_pc[c] = "gni_return"
    /\ c_req_id' = [c_req_id EXCEPT ![c] = counter]
    /\ input_q' = Append(input_q, [id |-> counter, req |-> c_to_request[c]])
    /\ c_sent' = [c_sent EXCEPT ![c] = Append(@, [id |-> counter, req |-> c_to_request[c]])]
    /\ stop_ids' = IF t_pc = "stopped" THEN stop_ids \cup {counter} ELSE stop_ids
    /\ issued' = issued \cup {counter}
    /\ id_clash' = (id_clash \/ counter \in issued)
    /\ c_pc' = [c_pc EXCEPT ![c] = "record"]
    /\ UNCHANGED <<cacheVars, counter, output_q, tmp_results, man_request_dicts,
                   db_request_dicts, garbage_queue, man_garbage_queue,
                   c_calls, c_request, c_caching, c_index, c_to_request,
                   c_unique, c_ret, c_key, c_out, c_miss, c_seen,
                   workerVars, dummyVars, srv_running, srv_timeout, srv_max_timeouts,
                   counters, srv_timeout_counters, t_pc, t_thread, n_restarts>>
    /\ UNCHANGED apiVars

\* _run_service_quick: the request is recorded in both ledgers.
Record(c) ==
    /\ c_pc[c] = "record"
    /\ man_request_dicts' = LedgerSet(man_request_dicts, c_req_id[c], c_to_request[c])
    /\ db_request_dicts' = LedgerSet(db_request_dicts, c_req_id[c], c_to_request[c])
    /\ c_pc' = [c_pc EXCEPT ![c] = "loop"]
    /\ UNCHANGED <<cacheVars, counter, input_q, output_q, tmp_results,
                   garbage_queue, man_garbage_queue,
                   c_calls, c_request, c_caching, c_index, c_req_id, c_to_request,
                   c_unique, c_ret, c_key, c_out, c_miss, c_seen, c_sent,
                   workerVars, dummyVars, superVars>>
    /\ UNCHANGED apiVars

\* One iteration of the result loop.  get_service polls the cache first
\* (_get_database_result, whatever the caching argument is); both then drain
\* the tmp queue (_get_tmp_result) and take one item off the output queue
\* (_get_result, a get with a timeout); the is_pending check is due at some
\* iterations only and ends the call when the ledger no longer holds the id.
Loop(c) ==
    /\ c_pc[c] = "loop"
    /\ LET single == ~c_request[c].list
           k == c_request[c].v[1]
           r == IF single THEN GetDatabaseResult(service_outputs, k, now)
                ELSE Miss(service_outputs)
           g == GetTmpResult(TMP_ITER, tmp_results, <<>>, r.cache, c_req_id[c],
                             c_to_request[c], db_request_dicts, now)
           got == output_q # <<>>
           item == Head(output_q)
           mine == got /\ item.id = c_req_id[c]
           m == Matched(g.cache, c_to_request[c], item.out, now)
           ret == IF mine THEN m.ret ELSE NoReturn IN
       /\ last_read' = IF single THEN ReadRecord(service_outputs, k, now, r) ELSE last_read
       /\ IF r.hit
          THEN /\ service_outputs' = r.cache
               /\ Return(c, DictReturn(r.res), "cache")
               /\ UNCHANGED <<tmp_results, output_q>>
          ELSE IF g.ret.raised \/ g.ret.has
          THEN /\ service_outputs' = g.cache
               /\ tmp_results' = g.q
               /\ Return(c, g.ret, "tmp")
               /\ UNCHANGED output_q
          ELSE /\ output_q' = IF got THEN Tail(output_q) ELSE output_q
               /\ service_outputs' = IF mine THEN m.cache ELSE g.cache
               /\ tmp_results' = IF got /\ ~mine
                                 THEN Append(g.q, [n |-> 0, id |-> item.id, out |-> item.out])
                                 ELSE g.q
               /\ IF ret.raised \/ ret.has THEN Return(c, ret, "queue")
                  ELSE \/ UNCHANGED <<c_pc, c_ret, garbage_queue>>
                       \/ /\ c_req_id[c] \notin LedgerIds(db_request_dicts)
                          /\ Incomplete(c)
    /\ UNCHANGED <<now, lru_order, last_evict, counter, input_q,
                   man_request_dicts, db_request_dicts, man_garbage_queue,
                   c_calls, c_request, c_caching, c_index, c_req_id, c_to_request,
                   c_unique, c_key, c_out, c_miss, c_seen, c_sent,
                   workerVars, dummyVars, superVars>>
    /\ UNCHANGED apiVars

\* DatabaseManager._gb_collector takes one event off its queue.
DbGcEvent ==
    /\ garbage_queue # <<>>
    /\ garbage_queue' = Tail(garbage_queue)
    /\ db_request_dicts' = IF Head(garbage_queue) = 0 THEN db_request_dicts
                           ELSE LedgerDel(db_request_dicts, Head(garbage_queue))
    /\ UNCHANGED <<cacheVars, counter, input_q, output_q, tmp_results, man_request_dicts,
                   man_garbage_queue, callerVars, workerVars, dummyVars, superVars>>
    /\ UNCHANGED apiVars

\* ServiceManager._gb_collector takes one event off its queue.
ManGcEvent ==
    /\ man_garbage_queue # <<>>
    /\ man_garbage_queue' = Tail(man_garbage_queue)
    /\ man_request_dicts' = LedgerDel(man_request_dicts, Head(man_garbage_queue))
    /\ man_collected' = man_collected \cup {Head(man_garbage_queue)}
    /\ UNCHANGED <<cacheVars, counter, input_q, output_q, tmp_results, db_request_dicts,
                   garbage_queue, callerVars, workerVars, dummyVars, superVars>>
    /\ UNCHANGED <<authVars, lifeVars, groupVars, regVars, indexVars, callVars, bootVars,
                   man_pending, db_pending>>

\* ---- the idle scans of the collectors (the queue.Empty branch)
\* the request ids of pending_requests
PendingIds(pending) == {pending[i].id : i \in 1..Len(pending)}
\* when the collector saw the id first
FirstSeen(pending, id) == pending[CHOOSE i \in 1..Len(pending) : pending[i].id = id].ts
\* a mutation of ManScanDelete: the scan deletes nothing
M_ManScanDelete(l, pending, t) == {}
\* ServiceManager._gb_collector, to_delete: the ids of the ledger the collector
\* saw at an earlier scan more than max_service_run_time ago
ManScanDelete(l, pending, t) ==
    {id \in LedgerIds(l) \cap PendingIds(pending) :
        ~(t - FirstSeen(pending, id) <= max_service_run_time)}
\* the ledger without the ids of a set
RECURSIVE LedgerDelAll(_, _)
LedgerDelAll(l, ids) ==
    IF l = <<>> THEN <<>>
    ELSE IF Head(l).id \in ids THEN LedgerDelAll(Tail(l), ids)
    ELSE <<Head(l)>> \o LedgerDelAll(Tail(l), ids)
\* ServiceManager._gb_collector, the new pending_requests: the ids of the
\* ledger, each with the time it was seen first
ManScanPending(l, pending, t) ==
    [i \in 1..Len(l) |->
        [id |-> l[i].id,
         ts |-> IF l[i].id \in PendingIds(pending) THEN FirstSeen(pending, l[i].id) ELSE t]]
\* a mutation of DbScanDelete: the ServiceManager's ledger is not consulted
M_DbScanDelete(l, pending, man_l) == LedgerIds(l) \cap pending
\* DatabaseManager._gb_collector, to_delete: the ids of the ledger seen at the
\* previous scan for which ServiceManager.is_pending is False
DbScanDelete(l, pending, man_l) ==
    {id \in LedgerIds(l) \cap pending : id \notin LedgerIds(man_l)}

\* ServiceManager._gb_collector: garbage_queue.get timed out
ManGcIdle ==
    /\ man_garbage_queue = <<>>
    /\ LET to_delete == ManScanDelete(man_request_dicts, man_pending, now)
           l == LedgerDelAll(man_request_dicts, to_delete) IN
       /\ man_request_dicts' = l
       /\ man_pending' = ManScanPending(l, man_pending, now)
    /\ UNCHANGED <<cacheVars, counter, input_q, output_q, tmp_results, db_request_dicts,
                   garbage_queue, man_garbage_queue, callerVars, workerVars, dummyVars,
                   superVars, authVars, lifeVars, groupVars, regVars, indexVars, callVars, bootVars,
                   db_pending,
                   man_collected>>

\* DatabaseManager._gb_collector: garbage_queue.get timed out
DbGcIdle ==
    /\ garbage_queue = <<>>
    /\ LET to_delete == DbScanDelete(db_request_dicts, db_pending, man_request_dicts)
           l == LedgerDelAll(db_request_dicts, to_delete) IN
       /\ db_request_dicts' = l
       /\ db_pending' = LedgerIds(l)
    /\ UNCHANGED <<cacheVars, counter, input_q, output_q, tmp_results, man_request_dicts,
                   garbage_queue, man_garbage_queue, callerVars, workerVars, dummyVars,
                   superVars, authVars, lifeVars, groupVars, regVars, indexVars, callVars, bootVars,
                   man_pending,
                   man_collected>>

\* ------------------------------------------------------------ the worker
\* a mutation of ResponseId: the output is published under the next id
M_ResponseId(item) == item.id + 1
\* the id a worker or dummy worker publishes its output under: request[0]
ResponseId(item) == item.id
\* the None a stopping service puts on the input queue
Sentinel == NoItem

\* while is_running.value: state := True; awaiting := True (then the blocking get)
W_Top(w) ==
    /\ w_pc[w] = "top"
    /\ IF srv_running
       THEN /\ srv_states' = [srv_states EXCEPT ![w] = TRUE]
            /\ srv_awaiting' = [srv_awaiting EXCEPT ![w] = TRUE]
            /\ w_pc' = [w_pc EXCEPT ![w] = "get"]
       ELSE /\ w_pc' = [w_pc EXCEPT ![w] = "dead"]
            /\ UNCHANGED <<srv_states, srv_awaiting>>
    /\ UNCHANGED <<cacheVars, queueVars, callerVars, w_request, w_output, srv_values,
                   w_taken, w_puts, put_log, dummyVars, superVars>>
    /\ UNCHANGED apiVars

\* request = queues[0].get(); None sends the worker back to the loop test
W_Get(w) ==
    /\ w_pc[w] = "get"
    /\ input_q # <<>>
    /\ input_q' = Tail(input_q)
    /\ IF Head(input_q) = Sentinel
       THEN /\ w_pc' = [w_pc EXCEPT ![w] = "top"]
            /\ UNCHANGED <<w_request, w_taken, w_puts>>
       ELSE /\ w_pc' = [w_pc EXCEPT ![w] = "got"]
            /\ w_request' = [w_request EXCEPT ![w] = Head(input_q)]
            /\ w_taken' = [w_taken EXCEPT ![w] = Head(input_q).id]
            /\ w_puts' = [w_puts EXCEPT ![w] = 0]
    /\ UNCHANGED <<cacheVars, counter, output_q, tmp_results, man_request_dicts,
                   db_request_dicts, garbage_queue, man_garbage_queue, callerVars,
                   w_output, srv_states, srv_awaiting, srv_values, put_log,
                   dummyVars, superVars>>
    /\ UNCHANGED apiVars

\* change_value(value, request[0]); change_value(awaiting, False)
W_Begin(w) ==
    /\ w_pc[w] = "got"
    /\ srv_values' = [srv_values EXCEPT ![w] = w_request[w].id]
    /\ srv_awaiting' = [srv_awaiting EXCEPT ![w] = FALSE]
    /\ w_pc' = [w_pc EXCEPT ![w] = "run"]
    /\ UNCHANGED <<cacheVars, queueVars, callerVars, w_request, w_output, srv_states,
                   w_taken, w_puts, put_log, dummyVars, superVars>>
    /\ UNCHANGED apiVars

\* the try/except around run / run_list; a hanging run never gets here
W_Run(w) ==
    /\ w_pc[w] = "run"
    /\ ~ServiceHangs(w_request[w].req)
    /\ w_output' = [w_output EXCEPT ![w] = ServiceOutput(w_request[w].req)]
    /\ w_pc' = [w_pc EXCEPT ![w] = "put"]
    /\ UNCHANGED <<cacheVars, queueVars, callerVars, w_request, srv_states, srv_awaiting,
                   srv_values, w_taken, w_puts, put_log, dummyVars, superVars>>
    /\ UNCHANGED apiVars

\* queues[1].put((request[0], service_output)); with the service stopped
\* meanwhile the worker also resets its value, reports to the collector and ends
W_Put(w) ==
    /\ w_pc[w] = "put"
    /\ output_q' = Append(output_q, [id |-> ResponseId(w_request[w]), out |-> w_output[w]])
    /\ w_puts' = [w_puts EXCEPT ![w] = @ + 1]
    /\ put_log' = (put_log /\ ResponseId(w_request[w]) = w_taken[w])
    /\ IF srv_running
       THEN /\ w_pc' = [w_pc EXCEPT ![w] = "post"]
            /\ UNCHANGED <<srv_values, man_garbage_queue>>
       ELSE /\ w_pc' = [w_pc EXCEPT ![w] = "dead"]
            /\ srv_values' = [srv_values EXCEPT ![w] = 0]
            /\ man_garbage_queue' = Append(man_garbage_queue, w_request[w].id)
    /\ UNCHANGED <<cacheVars, counter, input_q, tmp_results, man_request_dicts,
                   db_request_dicts, garbage_queue, callerVars, w_request, w_output,
                   srv_states, srv_awaiting, w_taken, dummyVars, superVars>>
    /\ UNCHANGED apiVars

\* change_value(value, 0); gb_q.put((srv_id, request[0]))
W_Post(w) ==
    /\ w_pc[w] = "post"
    /\ srv_values' = [srv_values EXCEPT ![w] = 0]
    /\ man_garbage_queue' = Append(man_garbage_queue, w_request[w].id)
    /\ w_pc' = [w_pc EXCEPT ![w] = "top"]
    /\ UNCHANGED <<cacheVars, counter, input_q, output_q, tmp_results, man_request_dicts,
                   db_request_dicts, garbage_queue, callerVars, w_request, w_output,
                   srv_states, srv_awaiting, w_taken, w_puts, put_log,
                   dummyVars, superVars>>
    /\ UNCHANGED apiVars

\* ------------------------------------------------------ the dummy worker
\* while self.running is True: the loop test of a dummy worker, which reads
\* the ServiceManager's own running flag
D_Top(d) ==
    /\ d_pc[d] = "top"
    /\ d_pc' = [d_pc EXCEPT ![d] = IF man_running THEN "get" ELSE "none"]
    /\ UNCHANGED <<cacheVars, queueVars, callerVars, workerVars, superVars,
                   d_request, d_taken, d_puts, d_message>>
    /\ UNCHANGED apiVars

\* request = queues[0].get(); None sends the dummy worker back to the loop test
D_Get(d) ==
    /\ d_pc[d] = "get"
    /\ input_q # <<>>
    /\ input_q' = Tail(input_q)
    /\ UNCHANGED d_message
    /\ IF Head(input_q) = Sentinel
       THEN /\ d_pc' = [d_pc EXCEPT ![d] = "top"]
            /\ UNCHANGED <<d_request, d_taken, d_puts>>
       ELSE /\ d_pc' = [d_pc EXCEPT ![d] = "got"]
            /\ d_request' = [d_request EXCEPT ![d] = Head(input_q)]
            /\ d_taken' = [d_taken EXCEPT ![d] = Head(input_q).id]
            /\ d_puts' = [d_puts EXCEPT ![d] = 0]
    /\ UNCHANGED <<cacheVars, counter, output_q, tmp_results, man_request_dicts,
                   db_request_dicts, garbage_queue, man_garbage_queue, callerVars,
                   workerVars, superVars>>
    /\ UNCHANGED apiVars

\* queues[1].put((request[0], service_output)); gb_q.put((srv_id, request[0]))
D_Put(d) ==
    /\ d_pc[d] = "got"
    /\ output_q' = Append(output_q,
                          [id |-> ResponseId(d_request[d]),
                           out |-> DummyServiceOutput(d_request[d].req, d_message)])
    /\ man_garbage_queue' = Append(man_garbage_queue, d_request[d].id)
    /\ d_puts' = [d_puts EXCEPT ![d] = @ + 1]
    /\ put_log' = (put_log /\ ResponseId(d_request[d]) = d_taken[d])
    /\ d_pc' = [d_pc EXCEPT ![d] = "top"]
    /\ UNCHANGED <<cacheVars, counter, input_q, tmp_results, man_request_dicts,
                   db_request_dicts, garbage_queue, callerVars, w_pc, w_request,
                   w_output, srv_states, srv_awaiting, srv_values, w_taken, w_puts,
                   d_request, d_taken, d_message, superVars>>
    /\ UNCHANGED apiVars

\* ------------------------------------------------------- the Supervisor
\* _rerun_service: the recovered request goes back on the input queue under
\* the first id the ledger holds for an equal payload.
Rerun(l, req) ==
    IF \E i \in 1..Len(l) : l[i].req = req
    THEN <<[id |-> l[CHOOSE i \in 1..Len(l) :
                       l[i].req = req /\ \A j \in 1..(i - 1) : l[j].req # req].id,
            req |-> req]>>
    ELSE <<>>
\* a mutation of Recover: nothing is put back
M_Recover(l, values, w) == <<>>
\* _recover_value of worker w, then _rerun_service of what it recovered
Recover(l, values, w) ==
    IF values[w] # 0 /\ values[w] \in LedgerIds(l)
    THEN Rerun(l, LedgerGet(l, values[w]))
    ELSE <<>>
\* _recover_service_values and the reruns, for the workers from w on
RECURSIVE RecoverAll(_, _, _)
RecoverAll(l, values, w) ==
    IF w > MaxThreads THEN <<>>
    ELSE Recover(l, values, w) \o RecoverAll(l, values, w + 1)

NextThread(w) == IF w = MaxThreads THEN 1 ELSE w + 1

\* a mutation of TooManyTimeouts: one stall more is tolerated
M_TooManyTimeouts(stalls, max_timeouts) == stalls > max_timeouts /\ max_timeouts # 0
\* a mutation of TooManyTimeouts: max_timeouts 0 is a limit like any other
M_TooManyTimeoutsZero(stalls, max_timeouts) == stalls >= max_timeouts
\* self.srv_timeout_counters[srv_id] >= srv.max_timeouts != 0
TooManyTimeouts(stalls, max_timeouts) == stalls >= max_timeouts /\ max_timeouts # 0

\* _terminator examines worker t_thread of the running service.  A worker
\* that is neither responding nor awaiting for timeout cycles (times the
\* length of a list request) is a detected stall: the service's stall count
\* goes up, and the worker is restarted or, at max_timeouts, the service is
\* told to stop (_stop_running_service: running := False, the Nones).
T_Check ==
    /\ t_pc = "check"
    /\ srv_timeout # 0
    /\ srv_running
    /\ LET w == t_thread
           n == counters[w] + 1
           extended == /\ srv_values[w] \in LedgerIds(man_request_dicts)
                       /\ LedgerGet(man_request_dicts, srv_values[w]).list
                       /\ n < srv_timeout * Len(LedgerGet(man_request_dicts, srv_values[w]).v)
           stalls == srv_timeout_counters + 1 IN
       IF srv_states[w] \/ srv_awaiting[w]
       THEN /\ counters' = [counters EXCEPT ![w] = 0]
            /\ srv_states' = [srv_states EXCEPT ![w] = FALSE]
            /\ t_thread' = NextThread(w)
            /\ UNCHANGED <<srv_timeout_counters, srv_running, input_q, t_pc>>
       ELSE IF n < srv_timeout \/ extended
       THEN /\ counters' = [counters EXCEPT ![w] = n]
            /\ t_thread' = NextThread(w)
            /\ UNCHANGED <<srv_states, srv_timeout_counters, srv_running, input_q, t_pc>>
       ELSE /\ counters' = [counters EXCEPT ![w] = n]
            /\ srv_timeout_counters' = stalls
            /\ IF TooManyTimeouts(stalls, srv_max_timeouts)
               THEN /\ srv_running' = FALSE
                    /\ input_q' = input_q \o [i \in 1..(MaxThreads + 1) |-> Sentinel]
                    /\ t_pc' = "kill"
               ELSE /\ t_pc' = "restart"
                    /\ UNCHANGED <<srv_running, input_q>>
            /\ UNCHANGED <<srv_states, t_thread>>
    /\ UNCHANGED <<cacheVars, counter, output_q, tmp_results, man_request_dicts,
                   db_request_dicts, garbage_queue, man_garbage_queue, callerVars,
                   w_pc, w_request, w_output, srv_awaiting, srv_values, w_taken, w_puts,
                   put_log, dummyVars, srv_timeout, srv_max_timeouts, n_restarts,
                   stop_ids, issued, id_clash>>
    /\ UNCHANGED apiVars

\* _restart_thread: kill the worker, recover and rerun its request, start a
\* new worker on the same flags.
T_Restart ==
    /\ t_pc = "restart"
    /\ LET w == t_thread IN
       /\ input_q' = input_q \o Recover(man_request_dicts, srv_values, w)
       /\ srv_values' = [srv_values EXCEPT ![w] = 0]
       /\ w_pc' = [w_pc EXCEPT ![w] = "top"]
       /\ w_request' = [w_request EXCEPT ![w] = NoItem]
       /\ w_output' = [w_output EXCEPT ![w] = NoOutput]
       /\ t_thread' = NextThread(w)
    /\ n_restarts' = n_restarts + 1
    /\ t_pc' = "check"
    /\ UNCHANGED <<cacheVars, counter, output_q, tmp_results, man_request_dicts,
                   db_request_dicts, garbage_queue, man_garbage_queue, callerVars,
                   srv_states, srv_awaiting, w_taken, w_puts, put_log, dummyVars,
                   srv_running, srv_timeout, srv_max_timeouts, counters,
                   srv_timeout_counters, stop_ids, issued, id_clash>>
    /\ UNCHANGED apiVars

\* _stop_running_service after the signal: _kill_service, the recovery of the
\* workers' requests, their rerun, _start_dummy_service.
T_StopKill ==
    /\ t_pc = "kill"
    /\ input_q' = input_q \o RecoverAll(man_request_dicts, srv_values, 1)
    /\ srv_values' = [w \in Threads |-> 0]
    /\ w_pc' = [w \in Threads |-> "dead"]
    /\ w_request' = [w \in Threads |-> NoItem]
    /\ w_output' = [w \in Threads |-> NoOutput]
    /\ d_pc' = [d \in Threads |-> "top"]
    /\ d_message' = TIMEOUT_MESSAGE
    /\ t_pc' = "stopped"
    /\ UNCHANGED <<cacheVars, counter, output_q, tmp_results, man_request_dicts,
                   db_request_dicts, garbage_queue, man_garbage_queue, callerVars,
                   srv_states, srv_awaiting, w_taken, w_puts, put_log,
                   d_request, d_taken, d_puts,
                   srv_running, srv_timeout, srv_max_timeouts, counters,
                   srv_timeout_counters, t_thread, n_restarts, stop_ids, issued, id_clash>>
    /\ UNCHANGED apiVars

\* ---------------------------------------------------------------- time
\* the wall clock advances
Tick ==
    /\ now < MaxTime
    /\ now' = now + 1
    /\ UNCHANGED <<service_outputs, lru_order, last_evict, last_read, queueVars,
                   callerVars, workerVars, dummyVars, superVars>>
    /\ UNCHANGED apiVars

\* ------------------------------------------------------ specifications
\* the requests callers send, and the lists of them up to MaxListLen
Requests == {"a", "b"}
RequestLists == UNION {[1..n -> Requests] : n \in 0..MaxListLen}

CallerStep(c) == GniStore(c) \/ GniReturn(c) \/ Record(c) \/ Loop(c)
WorkerStep(w) ==
    \/ W_Top(w) \/ W_Get(w) \/ W_Begin(w) \/ W_Run(w) \/ W_Put(w) \/ W_Post(w)

\* Caller threads dispatching single requests and lists to the running service.
Next ==
    \/ \E c \in Callers, p \in Requests : GetServiceCall(c, p, TRUE)
    \/ \E c \in Callers, rs \in RequestLists : GetServiceListCall(c, rs, TRUE)
    \/ \E c \in Callers : CallerStep(c)
    \/ \E w \in Threads : WorkerStep(w)

Spec == Init /\ [][Next]_vars

\* A supervised service (timeout 1 cycle) whose run() never returns on "hang":
\* callers, workers, the Supervisor and the dummy workers.
StallRequests == {"a", "hang"}
DummyStep(d) == D_Top(d) \/ D_Get(d) \/ D_Put(d)

NextStall ==
    \/ \E c \in Callers, p \in StallRequests : GetServiceCall(c, p, TRUE)
    \/ \E c \in Callers : CallerStep(c)
    \/ \E w \in Threads : WorkerStep(w)
    \/ \E d \in Threads : DummyStep(d)
    \/ T_Check
    \/ T_Restart
    \/ T_StopKill

InitStall ==
    /\ InitCache /\ InitCallers /\ InitQueues /\ InitWorkers /\ InitDummy
    /\ \E max_timeouts \in 1..MaxTimeouts : InitSuper(1, max_timeouts)
    /\ InitApi

SpecStall == InitStall /\ [][NextStall]_vars

\* A service whose run() raises on "bad" and returns an invalid result on
\* "invalid"; the worker threads are scheduled fairly.
RaiseRequests == {"a", "bad", "invalid"}
RaiseLists == {<<"a", "bad">>}

NextRaise ==
    \/ \E c \in Callers, p \in RaiseRequests : GetServiceCall(c, p, TRUE)
    \/ \E c \in Callers, rs \in RaiseLists : GetServiceListCall(c, rs, TRUE)
    \/ \E c \in Callers : CallerStep(c)
    \/ \E w \in Threads : WorkerStep(w)

SpecRaise == Init /\ [][NextRaise]_vars /\ \A w \in Threads : WF_vars(WorkerStep(w))

\* Callers dispatching while the clock advances past max_result_age.
AgeRequests == {"a", "b"}
AgeLists == {<<"a", "b">>}

NextAge ==
    \/ \E c \in Callers, p \in AgeRequests : GetServiceCall(c, p, TRUE)
    \/ \E c \in Callers, rs \in AgeLists : GetServiceListCall(c, rs, TRUE)
    \/ \E c \in Callers : CallerStep(c)
    \/ \E w \in Threads : WorkerStep(w)
    \/ Tick

SpecAge == Init /\ [][NextAge]_vars

\* ================================================================ claims
\* a caller whose request is recorded in the ledgers and has not returned
Pending(c) == c_pc[c] = "loop"

\* C1: a get_service call that returns state OK returns the output the service
\* computed for its own request, never the output for a different request.
C1_OwnOutput ==
    \A c \in Callers :
        (c_ret[c].state = "OK" /\ ~c_ret[c].req.list)
            => /\ Len(c_ret[c].val) = 1
               /\ c_ret[c].val[1].out = RunOutput(c_ret[c].req.v[1])

\* C2: no two requests that are pending in the service's ledger at the same
\* time were given the same request id by get_next_index.
C2_UniqueIds ==
    \A c1, c2 \in Callers :
        (c1 # c2 /\ Pending(c1) /\ Pending(c2)) => c_req_id[c1] # c_req_id[c2]

\* get_next_index has given every request an id of its own so far
DistinctIds == ~id_clash
FirstIndex(rs, r) == CHOOSE i \in 1..Len(rs) : rs[i] = r /\ \A j \in 1..(i - 1) : rs[j] # r

\* C7: a get_service_list call returns normally, with exactly len(requests)
\* entries, equal requests getting equal entries, also when another caller
\* parked the call's response on the tmp queue (request ids being distinct).
C7_ListReturns ==
    \A c \in Callers :
        (c_ret[c].req.list /\ c_ret[c].state # "none" /\ DistinctIds)
            => /\ c_ret[c].state # "RAISE"
               /\ Len(c_ret[c].val) = Len(c_ret[c].req.v)
               /\ \A i, j \in 1..Len(c_ret[c].req.v) :
                      c_ret[c].req.v[i] = c_ret[c].req.v[j]
                          => c_ret[c].val[i] = c_ret[c].val[j]

\* C8: a get_service_list call puts at most one item on the input queue, under
\* one request id; the item's payload holds each distinct request whose cache
\* lookup missed exactly once, in order of first occurrence; when every
\* request was a hit nothing is put.
C8_OneItemPerList ==
    \A c \in Callers :
        c_request[c].list =>
            /\ Len(c_sent[c]) <= 1
            /\ (c_miss[c] = {}) => (c_sent[c] = <<>> /\ c_pc[c] = "idle")
            /\ c_sent[c] # <<>> =>
                 LET item == c_sent[c][1]
                     to == item.req.v
                     rs == c_request[c].v IN
                 /\ item.req.list
                 /\ item.id > 0
                 /\ c_pc[c] = "loop" => c_req_id[c] = item.id
                 /\ {to[i] : i \in 1..Len(to)} = c_miss[c]
                 /\ \A i, j \in 1..Len(to) :
                        i < j => FirstIndex(rs, to[i]) < FirstIndex(rs, to[j])

\* C8 witness: a list with a duplicated request was sent as one item holding
\* the request once.
C8_Witness ==
    \E c \in Callers :
        /\ c_request[c] = List(<<"b", "b">>)
        /\ Len(c_sent[c]) = 1
        /\ c_sent[c][1].req = List(<<"b">>)

\* the outputs of a response are all the dummy worker's timeout message
AllDummy(out) == \A i \in 1..Len(out.v) : out.v[i] = DummyOutput(TIMEOUT_MESSAGE)

\* C3: every (request id, output) a worker or dummy worker puts on the output
\* queue carries the id of the input item it took, and it puts at most one
\* response per item it takes.
C3_ResponseCarriesId ==
    /\ put_log
    /\ \A w \in Threads : w_puts[w] <= 1 /\ d_puts[w] <= 1
    /\ \A i \in 1..Len(output_q) : output_q[i].id \in issued

\* C3 witness: a worker and, after the stop, a dummy worker have each
\* published the response of an item they took.
C3_Witness ==
    /\ put_log
    /\ \E w \in Threads : w_puts[w] = 1 /\ w_taken[w] \in issued
    /\ \E d \in Threads : d_puts[d] = 1 /\ d_taken[d] \in issued

MaxIds == NumCallers * MaxCalls
\* the uniform error, one copy per element, for a request with a failing element
ErrorFor(req, out) ==
    /\ out.list = req.list
    /\ Len(out.v) = Len(req.v)
    /\ \A i \in 1..Len(out.v) : out.v[i] = ExcOutput
Fails(req) == \E i \in 1..Len(req.v) : req.v[i] \in {"bad", "invalid"}

\* C9: when run raises or returns an invalid result the worker publishes the
\* uniform error under the request's id and goes on: it does not die, and every
\* request put on the input queue of the running service is taken and answered.
C9_ErrorAndContinue ==
    /\ [](\A w \in Threads :
            /\ w_pc[w] # "dead"
            /\ (w_pc[w] \in {"put", "post"} /\ Fails(w_request[w].req))
                  => ErrorFor(w_request[w].req, w_output[w])
            /\ (w_pc[w] \in {"put", "post"} /\ ~Fails(w_request[w].req))
                  => w_output[w].v = [i \in 1..Len(w_request[w].req.v) |->
                                         RunOutput(w_request[w].req.v[i])])
    /\ \A n \in 1..MaxIds :
          (\E i \in 1..Len(input_q) : input_q[i].id = n)
              ~> (\E w \in Threads : w_taken[w] = n /\ w_puts[w] = 1)

\* C9 witness: a request that raised was answered with the error, and a
\* request submitted later was answered with its output.
C9_Witness ==
    \E c1, c2 \in Callers :
        /\ c_ret[c1].state = "OK" /\ c_ret[c1].req = Single("bad")
        /\ c_ret[c1].val = <<[ts |-> now, out |-> ExcOutput]>>
        /\ c_ret[c2].state = "OK" /\ c_ret[c2].req = Single("a")
        /\ c_ret[c2].id > c_ret[c1].id
        /\ c_ret[c2].val[1].out = RunOutput("a")

\* key k is cached and older than max_result_age now
StaleNow(k) ==
    /\ k \in CacheKeys(service_outputs)
    /\ now - service_outputs[CacheIndex(service_outputs, k)].ts > max_result_age
\* caller c enters get_service or get_service_list in this step
Calls(c) == c_calls'[c] = c_calls[c] + 1

C4_CacheBounded == Len(service_outputs) <= max_database_size

\* C6: whenever a cache write evicts an entry, the evicted entry is the least
\* recently used one, a use being an insert, an overwrite or a read hit.
C6_EvictsLRU == last_evict.key = last_evict.lru

\* what _restart_thread / _stop_running_service must put back for worker w:
\* the request the worker was processing, under the id the worker held
SameIdRerun(l, values, w) ==
    IF values[w] # 0 /\ values[w] \in LedgerIds(l)
    THEN <<[id |-> values[w], req |-> LedgerGet(l, values[w])]>>
    ELSE <<>>
RECURSIVE SameIdRerunAll(_, _, _)
SameIdRerunAll(l, values, w) ==
    IF w > MaxThreads THEN <<>>
    ELSE SameIdRerun(l, values, w) \o SameIdRerunAll(l, values, w + 1)

\* C11: a restart of a stalled worker, and a stop of the service, put each
\* recovered in-flight request back on the input queue under the request id
\* the worker was processing, also when another pending request of the
\* service has the same payload.
C11_RerunKeepsId ==
    [][/\ (t_pc = "restart" /\ t_pc' = "check")
            => input_q' = input_q \o SameIdRerun(man_request_dicts, srv_values, t_thread)
       /\ (t_pc = "kill" /\ t_pc' = "stopped")
            => input_q' = input_q \o SameIdRerunAll(man_request_dicts, srv_values, 1)]_vars

\* ================================== the API of DatabaseManager (database.py)
\* the result of _parse_int on a string that is no integer (None)
NoInt == -1
\* _parse_int on the service ids and group names the endpoints receive
ParseInt(s) ==
    CASE s = "0" -> 0
      [] s = "1" -> 1
      [] s = "7" -> 7
      [] OTHER -> NoInt
\* len(request): the requests are one character long, but for "toolong"
RequestLen(r) == IF r = "toolong" THEN max_request_size + 1 ELSE 1
\* ServiceManager.validate_request
validate_request(r) == RequestLen(r) <= max_request_size

\* the tokens file of the server the API specifications run: one admin, one
\* superuser, and the user user000001 with the services 0 and 1
ServerTokens ==
    [groups |-> EmptyDict,
     users |-> DictSet(EmptyDict, "user000001", <<Srv(0), Srv(1)>>),
     superusers |-> <<RootSuperuser>>, admins |-> <<RootAdmin>>]

\* a mutation of get_service's checks: the authorization test is left out
M_get_service_rejection(run, service_id, request, token) ==
    IF ~run THEN "Server is not running"
    ELSE IF ~validate_request(request) THEN "Request validation failed"
    ELSE IF ParseInt(service_id) = NoInt THEN "service_id must be integer"
    ELSE IF ParseInt(service_id) \notin RegisteredServices THEN "Invalid service_id"
    ELSE ""
\* the checks get_service makes before it dispatches: the message of the
\* error it returns, "" when it goes on
get_service_rejection(run, service_id, request, token) ==
    IF ~run THEN "Server is not running"
    ELSE IF ~validate_request(request) THEN "Request validation failed"
    ELSE IF ParseInt(service_id) = NoInt THEN "service_id must be integer"
    ELSE IF ParseInt(service_id) \notin RegisteredServices THEN "Invalid service_id"
    ELSE IF ~authorize_user(aman, bypass_user, token, ParseInt(service_id))
    THEN "Insufficient permissions"
    ELSE ""
\* the checks of get_service_list: the requests are validated last
get_service_list_rejection(run, service_id, requests, token) ==
    IF ~run THEN "Server is not running"
    ELSE IF ParseInt(service_id) = NoInt THEN "service_id must be integer"
    ELSE IF ParseInt(service_id) \notin RegisteredServices THEN "Invalid service_id"
    ELSE IF ~authorize_user(aman, bypass_user, token, ParseInt(service_id))
    THEN "Insufficient permissions"
    ELSE IF \E i \in 1..Len(requests) : ~validate_request(requests[i])
    THEN "Request validation failed"
    ELSE ""

\* the call returns the error dict with the message
Reject(c, message) ==
    /\ c_pc[c] = "idle"
    /\ c_calls[c] < MaxCalls
    /\ c_calls' = [c_calls EXCEPT ![c] = @ + 1]
    /\ c_ret' = [c_ret EXCEPT ![c] = [NoReturned EXCEPT !.state = "REJECTED"]]
    /\ c_msg' = [c_msg EXCEPT ![c] = message]
    /\ UNCHANGED <<cacheVars, engineVars, c_pc, c_request, c_caching, c_index, c_req_id,
                   c_to_request, c_unique, c_key, c_out, c_miss, c_seen, c_sent,
                   authVars, extVars, running, man_running, l_pc, l_op, l_ret, l_calls, groupVars>>

\* DatabaseManager.get_service; the dispatch that follows the checks is
\* modelled for service 0
get_service(c, service_id, request, token, caching) ==
    /\ c_pc[c] = "idle"
    /\ IF get_service_rejection(running, service_id, request, token) # ""
       THEN Reject(c, get_service_rejection(running, service_id, request, token))
       ELSE ParseInt(service_id) = 0 /\ GetServiceCall(c, request, caching)

\* DatabaseManager.get_service_list
get_service_list(c, service_id, requests, token, caching) ==
    /\ c_pc[c] = "idle"
    /\ IF get_service_list_rejection(running, service_id, requests, token) # ""
       THEN Reject(c, get_service_list_rejection(running, service_id, requests, token))
       ELSE ParseInt(service_id) = 0 /\ GetServiceListCall(c, requests, caching)

\* ---- start_services / stop_services, called by the admin one at a time
\* a mutation of start_services: the test of self.running is left out
M_start_services ==
    /\ l_pc = "idle"
    /\ l_calls < MaxLifeCalls
    /\ l_calls' = l_calls + 1
    /\ l_op' = "start"
    /\ srv_running' = TRUE
    /\ w_pc' = [w \in Threads |-> "top"]
    /\ w_request' = [w \in Threads |-> NoItem]
    /\ w_output' = [w \in Threads |-> NoOutput]
    /\ man_running' = TRUE
    /\ running' = TRUE
    /\ l_ret' = TRUE
    /\ UNCHANGED <<cacheVars, queueVars, callerVars, srv_states, srv_awaiting, srv_values,
                   w_taken, w_puts, put_log, dummyVars, srv_timeout, srv_max_timeouts,
                   counters, srv_timeout_counters, t_pc, t_thread, n_restarts, stop_ids,
                   issued, id_clash, authVars, extVars, l_pc, c_msg, groupVars>>
\* DatabaseManager.start_services and in it ServiceManager.start, whose
\* return value is not looked at: the service runs again and its workers are
\* started, unless the ServiceManager runs already or is not initialized
start_services ==
    /\ l_pc = "idle"
    /\ l_calls < MaxLifeCalls
    /\ l_calls' = l_calls + 1
    /\ l_op' = "start"
    /\ IF running \/ ~initialized
       THEN /\ l_ret' = FALSE
            /\ UNCHANGED <<running, man_running, srv_running, w_pc, w_request, w_output>>
       ELSE /\ IF man_running \/ ~man_initialized
               THEN UNCHANGED <<man_running, srv_running, w_pc, w_request, w_output>>
               ELSE /\ srv_running' = TRUE
                    /\ w_pc' = [w \in Threads |-> "top"]
                    /\ w_request' = [w \in Threads |-> NoItem]
                    /\ w_output' = [w \in Threads |-> NoOutput]
                    /\ man_running' = TRUE
            /\ running' = TRUE
            /\ l_ret' = TRUE
    /\ UNCHANGED <<cacheVars, queueVars, callerVars, srv_states, srv_awaiting, srv_values,
                   w_taken, w_puts, put_log, dummyVars, srv_timeout, srv_max_timeouts,
                   counters, srv_timeout_counters, t_pc, t_thread, n_restarts, stop_ids,
                   issued, id_clash, authVars, extVars, l_pc, c_msg, groupVars>>

\* DatabaseManager.stop_services and in it ServiceManager.stop up to the
\* signal of _stop_running_service: the flags are lowered and None is put on
\* the input queue once per worker and once more
stop_services ==
    /\ l_pc = "idle"
    /\ l_calls < MaxLifeCalls
    /\ l_calls' = l_calls + 1
    /\ l_op' = "stop"
    /\ IF ~running
       THEN /\ l_ret' = FALSE
            /\ UNCHANGED <<running, man_running, srv_running, input_q, l_pc>>
       ELSE /\ running' = FALSE
            /\ IF man_running
               THEN /\ man_running' = FALSE
                    /\ srv_running' = FALSE
                    /\ input_q' = input_q \o [i \in 1..(MaxThreads + 1) |-> Sentinel]
                    /\ l_pc' = "kill"
                    /\ UNCHANGED l_ret
               ELSE /\ l_ret' = TRUE
                    /\ UNCHANGED <<man_running, srv_running, input_q, l_pc>>
    /\ UNCHANGED <<cacheVars, counter, output_q, tmp_results, man_request_dicts,
                   db_request_dicts, garbage_queue, man_garbage_queue, callerVars,
                   workerVars, dummyVars, srv_timeout, srv_max_timeouts, counters,
                   srv_timeout_counters, t_pc, t_thread, n_restarts, stop_ids, issued,
                   id_clash, authVars, extVars, c_msg, groupVars>>

\* the rest of _stop_running_service(srv_id, False, ""): the threads of the
\* service still alive, dummy workers included (_is_th_proc_name goes by the
\* name's prefix), are killed, the workers' values recovered and rerun;
\* stop_services returns
StopKill ==
    /\ l_pc = "kill"
    /\ input_q' = input_q \o RecoverAll(man_request_dicts, srv_values, 1)
    /\ srv_values' = [w \in Threads |-> 0]
    /\ w_pc' = [w \in Threads |-> "dead"]
    /\ w_request' = [w \in Threads |-> NoItem]
    /\ w_output' = [w \in Threads |-> NoOutput]
    /\ d_pc' = [d \in Threads |-> "none"]
    /\ l_pc' = "idle"
    /\ l_ret' = TRUE
    /\ UNCHANGED <<cacheVars, counter, output_q, tmp_results, man_request_dicts,
                   db_request_dicts, garbage_queue, man_garbage_queue, callerVars,
                   srv_states, srv_awaiting, w_taken, w_puts, put_log,
                   d_request, d_taken, d_puts, d_message,
                   superVars, authVars, extVars, running, man_running, l_op, l_calls, c_msg,
                   groupVars>>

\* ---- the inputs of the API specifications
ServiceIdInputs == {"0", "7", "x"}
ApiRequests == {"a", "toolong"}
ApiLists == {<<"a">>, <<"a", "toolong">>}
ApiTokens == {"user000001", "USER000001"}

InitServer ==
    /\ InitCache /\ InitCallers /\ InitEngine(0, 0)
    /\ InitAuth(IniPath, FALSE, ServerTokens)
    /\ InitLife
    /\ InitGroup
    /\ InitExt

\* Callers use get_service and get_service_list; the admin may stop the services.
NextApi ==
    \/ \E c \in Callers, s \in ServiceIdInputs, p \in ApiRequests, t \in ApiTokens,
          caching \in BOOLEAN : get_service(c, s, p, t, caching)
    \/ \E c \in Callers, s \in ServiceIdInputs, rs \in ApiLists, t \in ApiTokens,
          caching \in BOOLEAN : get_service_list(c, s, rs, t, caching)
    \/ \E c \in Callers : CallerStep(c)
    \/ \E w \in Threads : WorkerStep(w)
    \/ l_calls = 0 /\ stop_services
    \/ StopKill

SpecApi == InitServer /\ [][NextApi]_vars

\* Callers send the request "a" to service 0 while the admin stops and
\* starts the services.
NextLife ==
    \/ \E c \in Callers, t \in ApiTokens : get_service(c, "0", "a", t, TRUE)
    \/ \E c \in Callers : CallerStep(c)
    \/ \E w \in Threads : WorkerStep(w)
    \/ start_services
    \/ stop_services
    \/ StopKill

SpecLife == InitServer /\ [][NextLife]_vars


\* the position of x in the sequence seq
Pos(seq, x) == CHOOSE i \in 1..Len(seq) : seq[i] = x

\* what get_group asks of service s: the request, unless caching finds it
GroupToRequest(s, p, caching) ==
    IF caching /\ p \in g_cache[s] THEN NoPayload ELSE Single(p)
\* what get_group_list asks of service s: the unique requests caching does not find
GroupListToRequest(s, rs, caching) ==
    List(SelectSeq(UniqueRequests(rs), LAMBDA u : ~(caching /\ u \in g_cache[s])))

\* the dispatch of get_group / get_group_list to the authorized services of
\* the group: per service the cache lookups and _run_service_quick, which
\* queues nothing for an empty to_request; with every service done at once
\* the call returns without entering its loop
GroupDispatch(c, group_name, services, request, to, token) ==
    LET missing == SelectSeq(services, LAMBDA s : to[s].v # <<>>)
        ids == [s \in GroupServiceIds |->
                   IF to[s].v # <<>> /\ s \in Range(services)
                   THEN counter + Pos(missing, s) ELSE 0]
        done == Range(services) \ Range(missing) IN
    /\ counter + Len(missing) < MAX_COUNTER
    /\ c_calls[c] < MaxCalls
    /\ c_calls' = [c_calls EXCEPT ![c] = @ + 1]
    /\ counter' = counter + Len(missing)
    /\ issued' = issued \cup {ids[s] : s \in Range(missing)}
    /\ g_in' = [s \in GroupServiceIds |->
                   IF s \in Range(missing)
                   THEN Append(g_in[s], [id |-> ids[s], req |-> to[s]]) ELSE g_in[s]]
    /\ g_ledger' = [s \in GroupServiceIds |->
                       IF s \in Range(missing) THEN g_ledger[s] \cup {ids[s]}
                       ELSE g_ledger[s]]
    /\ gc_name' = [gc_name EXCEPT ![c] = group_name]
    /\ gc_token' = [gc_token EXCEPT ![c] = token]
    /\ gc_request' = [gc_request EXCEPT ![c] = request]
    /\ gc_services' = [gc_services EXCEPT ![c] = services]
    /\ gc_to' = [gc_to EXCEPT ![c] = [s \in GroupServiceIds |->
                                        IF s \in Range(services) THEN to[s] ELSE NoPayload]]
    /\ gc_map' = [gc_map EXCEPT ![c] = ids]
    /\ gc_done' = [gc_done EXCEPT ![c] = done]
    /\ gc_keys' = [gc_keys EXCEPT ![c] =
                     IF request.list THEN (IF missing = <<>> THEN done ELSE {}) ELSE done]
    /\ IF missing = <<>>
       THEN /\ gc_pc' = [gc_pc EXCEPT ![c] = "idle"]
            /\ gc_ret' = [gc_ret EXCEPT ![c] = [state |-> "OK", keys |-> done]]
       ELSE /\ gc_pc' = [gc_pc EXCEPT ![c] = "loop"]
            /\ gc_ret' = [gc_ret EXCEPT ![c] = NoGroupReturn]
    /\ UNCHANGED <<cacheVars, input_q, output_q, tmp_results, man_request_dicts,
                   db_request_dicts, garbage_queue, man_garbage_queue,
                   c_pc, c_request, c_caching, c_index, c_req_id, c_to_request,
                   c_unique, c_ret, c_key, c_out, c_miss, c_seen, c_sent,
                   workerVars, dummyVars, srv_running, srv_timeout, srv_max_timeouts,
                   counters, srv_timeout_counters, t_pc, t_thread, n_restarts, stop_ids,
                   id_clash, authVars, extVars, lifeVars, g_out, g_tmp, g_cache>>

\* DatabaseManager.get_group
get_group(c, group_name, request, token, caching) ==
    /\ c_pc[c] = "idle"
    /\ gc_pc[c] = "idle"
    /\ IF ~running THEN Reject(c, "Server is not running")
       ELSE IF ParseInt(group_name) # NoInt
       THEN get_service(c, group_name, request, token, caching)
       ELSE IF ~validate_request(request) THEN Reject(c, "Request validation failed")
       ELSE IF get_group_services(group_name) = <<>>
       THEN Reject(c, "Group name is not implemented or is invalid")
       ELSE LET services == get_user_authorized(aman, bypass_user, token,
                                                get_group_services(group_name)) IN
            IF services = <<>> THEN Reject(c, "Insufficient permissions")
            ELSE GroupDispatch(c, group_name, services, Single(request),
                               [s \in GroupServiceIds |->
                                   GroupToRequest(s, request, caching)], token)

\* DatabaseManager.get_group_list; a numeric group name goes to
\* get_service_list(group_name, requests, token), caching at its default
get_group_list(c, group_name, requests, token, caching) ==
    /\ c_pc[c] = "idle"
    /\ gc_pc[c] = "idle"
    /\ IF ~running THEN Reject(c, "Server is not running")
       ELSE IF ParseInt(group_name) # NoInt
       THEN get_service_list(c, group_name, requests, token, TRUE)
       ELSE IF get_group_services(group_name) = <<>>
       THEN Reject(c, "Group name is not implemented or is invalid")
       ELSE LET services == get_user_authorized(aman, bypass_user, token,
                                                get_group_services(group_name)) IN
            IF services = <<>> THEN Reject(c, "Insufficient permissions")
            ELSE IF \E i \in 1..Len(requests) : ~validate_request(requests[i])
            THEN Reject(c, "Request validation failed")
            ELSE GroupDispatch(c, group_name, services, List(requests),
                               [s \in GroupServiceIds |->
                                   GroupListToRequest(s, requests, caching)], token)

\* a worker of group service s takes a request and publishes its output
GroupWorker(s) ==
    /\ g_in[s] # <<>>
    /\ g_in' = [g_in EXCEPT ![s] = Tail(@)]
    /\ g_out' = [g_out EXCEPT ![s] = Append(@, Head(g_in[s]))]
    /\ UNCHANGED <<cacheVars, engineVars, callerVars, authVars, extVars, lifeVars,
                   g_tmp, g_ledger, g_cache, gc_pc, gc_name, gc_token, gc_request,
                   gc_services, gc_to, gc_map, gc_done, gc_keys, gc_ret>>

\* the caller is done with service s; with the last service the call returns
\* (get_group_list sets the key of every service when it returns)
GroupDone(c, s) ==
    LET done == gc_done[c] \cup {s}
        last == done = Range(gc_services[c]) IN
    /\ gc_done' = [gc_done EXCEPT ![c] = done]
    /\ gc_keys' = [gc_keys EXCEPT ![c] =
                     IF gc_request[c].list
                     THEN (IF last THEN Range(gc_services[c]) ELSE @)
                     ELSE @ \cup {s}]
    /\ IF last
       THEN /\ gc_pc' = [gc_pc EXCEPT ![c] = "idle"]
            /\ gc_ret' = [gc_ret EXCEPT ![c] = [state |-> "OK", keys |-> gc_keys'[c]]]
       ELSE UNCHANGED <<gc_pc, gc_ret>>

\* one pass of the result loop over service s: get_group polls the cache
\* (_get_database_result), both calls then look into the tmp queue
\* (_get_tmp_result) and take one item off the output queue (_get_result): the
\* caller's own result is saved in the cache, another caller's goes to the
\* tmp queue
GroupPoll(c, s) ==
    /\ gc_pc[c] = "loop"
    /\ s \in Range(gc_services[c]) \ gc_done[c]
    /\ LET mine(item) == item.id = gc_map[c][s] IN
       IF ~gc_request[c].list /\ gc_request[c].v[1] \in g_cache[s]
       THEN /\ GroupDone(c, s)
            /\ UNCHANGED <<g_out, g_tmp, g_cache>>
       ELSE IF \E i \in 1..Len(g_tmp[s]) : mine(g_tmp[s][i])
       THEN /\ g_tmp' = [g_tmp EXCEPT ![s] = SelectSeq(@, LAMBDA item : ~mine(item))]
            /\ g_cache' = [g_cache EXCEPT ![s] = @ \cup Range(gc_to[c][s].v)]
            /\ GroupDone(c, s)
            /\ UNCHANGED g_out
       ELSE /\ g_out[s] # <<>>
            /\ g_out' = [g_out EXCEPT ![s] = Tail(@)]
            /\ IF mine(Head(g_out[s]))
               THEN /\ g_cache' = [g_cache EXCEPT ![s] = @ \cup Range(gc_to[c][s].v)]
                    /\ GroupDone(c, s)
                    /\ UNCHANGED g_tmp
               ELSE /\ g_tmp' = [g_tmp EXCEPT ![s] = Append(@, Head(g_out[s]))]
                    /\ UNCHANGED <<g_cache, gc_done, gc_keys, gc_pc, gc_ret>>
    /\ UNCHANGED <<cacheVars, engineVars, callerVars, authVars, extVars, lifeVars,
                   g_in, g_ledger, gc_name, gc_token, gc_request, gc_services, gc_to,
                   gc_map>>

\* ---- the inputs of the group specification
GroupNameInputs == {"g", "h"}
GroupTokens == {"user000001", "USER000001", RootSuperuser}
GroupLists == {<<"a">>, <<"a", "b", "a">>, <<"toolong">>}

\* Callers use get_group and get_group_list with group names.
NextGroup ==
    \/ \E c \in Callers, g \in GroupNameInputs, p \in ApiRequests, t \in GroupTokens,
          caching \in BOOLEAN : get_group(c, g, p, t, caching)
    \/ \E c \in Callers, g \in GroupNameInputs, rs \in GroupLists, t \in GroupTokens,
          caching \in BOOLEAN : get_group_list(c, g, rs, t, caching)
    \/ \E c \in Callers, s \in GroupServiceIds : GroupPoll(c, s)
    \/ \E s \in GroupServiceIds : GroupWorker(s)

SpecGroup == InitServer /\ [][NextGroup]_vars


\* ---- C13
\* the services of the group the token is authorized for
AuthorizedOfGroup(group_name, token) ==
    {s \in GroupServiceIds : /\ group_name \in ServiceGroups(s)
                             /\ authorize_user(aman, bypass_user, token, s)}
\* what a group call with this name and token may do: it queues requests only
\* for authorized services of the group, and with none authorized it is
\* rejected with "Insufficient permissions" and queues nothing
GroupCallAuthorized(c, group_name, token, valid) ==
    /\ \A s \in GroupServiceIds :
          g_in'[s] # g_in[s] => s \in AuthorizedOfGroup(group_name, token)
    /\ (/\ running
        /\ valid
        /\ get_group_services(group_name) # <<>>
        /\ AuthorizedOfGroup(group_name, token) = {})
       => (/\ c_msg'[c] = "Insufficient permissions"
           /\ UNCHANGED <<g_in, g_ledger, counter, input_q>>)
\* C13: get_group and get_group_list queue requests only for the services of
\* the group for which authorize_user holds for the token, the keys of what
\* they return are such services only, and with no such service they return
\* "Insufficient permissions" and queue nothing.
C13_GroupAuthorization ==
    [][/\ \A c \in Callers, g \in GroupNameInputs, p \in ApiRequests, t \in GroupTokens,
             caching \in BOOLEAN :
             get_group(c, g, p, t, caching)
                 => GroupCallAuthorized(c, g, t, validate_request(p))
       /\ \A c \in Callers, g \in GroupNameInputs, rs \in GroupLists, t \in GroupTokens,
             caching \in BOOLEAN :
             get_group_list(c, g, rs, t, caching) => GroupCallAuthorized(c, g, t, TRUE)
       /\ \A c \in Callers :
             gc_keys'[c] \subseteq AuthorizedOfGroup(gc_name'[c], gc_token'[c])]_vars
\* a call of a user authorized for service 1 only has returned the key of
\* service 1 and service 2 was never asked; another call was refused for
\* want of any authorized service
C13_Witness ==
    \E c, d \in Callers :
        /\ gc_token[c] = "user000001"
        /\ gc_ret[c].state = "OK"
        /\ gc_ret[c].keys = {1}
        /\ g_ledger[2] = {}
        /\ c_msg[d] = "Insufficient permissions"

\* ---- C20
\* purely numeric group names: a registered and an unregistered service id
NumericNames == {"0", "7"}

\* Callers use get_group and get_group_list with numeric group names.
NextRoute ==
    \/ \E c \in Callers, n \in NumericNames, p \in ApiRequests, t \in ApiTokens,
          caching \in BOOLEAN : get_group(c, n, p, t, caching)
    \/ \E c \in Callers, n \in NumericNames, rs \in ApiLists, t \in ApiTokens,
          caching \in BOOLEAN : get_group_list(c, n, rs, t, caching)
    \/ \E c \in Callers : CallerStep(c)
    \/ \E w \in Threads : WorkerStep(w)

SpecRoute == InitServer /\ [][NextRoute]_vars

\* C20: with a purely numeric group name n, get_group(n, request, token,
\* caching) is a step of get_service(n, request, token, caching) and
\* get_group_list(n, requests, token, caching) is a step of
\* get_service_list(n, requests, token, caching), the caching flag included.
C20_NumericGroupReroute ==
    [][/\ \A c \in Callers, n \in NumericNames, p \in ApiRequests, t \in ApiTokens,
             caching \in BOOLEAN :
             get_group(c, n, p, t, caching) => get_service(c, n, p, t, caching)
       /\ \A c \in Callers, n \in NumericNames, rs \in ApiLists, t \in ApiTokens,
             caching \in BOOLEAN :
             get_group_list(c, n, rs, t, caching)
                 => get_service_list(c, n, rs, t, caching)]_vars

\* ---- C21
\* Callers dispatch the request "a" with caching on or off.
NextNoCache ==
    \/ \E c \in Callers, caching \in BOOLEAN : GetServiceCall(c, "a", caching)
    \/ \E c \in Callers : CallerStep(c)
    \/ \E w \in Threads : WorkerStep(w)

SpecNoCache == Init /\ [][NextNoCache]_vars

\* C21: a get_service call with caching false never returns a cache entry
\* that was in the cache when the call started; what it returns was produced
\* by a worker for a request submitted by or after the call.
C21_NoCacheMeansFresh ==
    \A c \in Callers :
        (c_ret[c].state = "OK" /\ ~c_ret[c].req.list /\ ~c_caching[c])
            => ~(c_ret[c].src = "cache" /\ c_seen[c])

\* ================================ the registration of the services (manager.py)
\* service_id None
NoneId == -1
\* _validate_service: the checks on the worker counts and on the service id
\* (the names and groups used here pass the name and group checks)
ValidateService(srv, srv_ids) ==
    /\ ~(~(srv.threads > 0) /\ ~(srv.processes > 0))
    /\ ~(srv.service_id # NoneId /\ srv.service_id < 0)
    /\ ~(srv.service_id # NoneId /\ srv.service_id \in Range(srv_ids))
\* __init__: the services are validated in the order they are constructed,
\* each against the ids of the services before it
RECURSIVE ValidateAll(_, _, _)
ValidateAll(srvs, i, srv_ids) ==
    IF i > Len(srvs) THEN TRUE
    ELSE /\ ValidateService(srvs[i], srv_ids)
         /\ ValidateAll(srvs, i + 1, Append(srv_ids, srvs[i].service_id))
\* a mutation of Lowest: the highest member
M_Lowest(S) == CHOOSE i \in S : \A j \in S : i >= j
\* the lowest member of a set of numbers
Lowest(S) == CHOOSE i \in S : \A j \in S : i <= j
\* range(len(srv_ids)) without the ids in srv_ids
UnusedIds(srv_ids) == {i \in 0..(Len(srv_ids) - 1) : i \notin Range(srv_ids)}
\* _sort_services, the loop that assigns the ids: an id that is too large
\* raises, a missing id gets the first i of range(len(srv_ids)) not in srv_ids
RECURSIVE AssignIds(_, _)
AssignIds(srv_ids, k) ==
    IF k > Len(srv_ids) THEN [ok |-> TRUE, ids |-> srv_ids]
    ELSE IF srv_ids[k] # NoneId /\ srv_ids[k] >= Len(srv_ids)
    THEN [ok |-> FALSE, ids |-> srv_ids]
    ELSE IF srv_ids[k] = NoneId /\ UnusedIds(srv_ids) # {}
    THEN AssignIds([srv_ids EXCEPT ![k] = Lowest(UnusedIds(srv_ids))], k + 1)
    ELSE AssignIds(srv_ids, k + 1)
\* sorted(srv_info, key=lambda x: x[0]): the positions in the order of their
\* ids, equal ids in their original order
SortedPositions(ids) ==
    CHOOSE perm \in [1..Len(ids) -> 1..Len(ids)] :
        /\ \A i, j \in 1..Len(ids) : i # j => perm[i] # perm[j]
        /\ \A i, j \in 1..Len(ids) :
              i < j => \/ ids[perm[i]] < ids[perm[j]]
                       \/ ids[perm[i]] = ids[perm[j]] /\ perm[i] < perm[j]
\* ServiceManager.__init__: validation, _sort_services, then initialize() and
\* start(); an exception of the validation or of _sort_services leaves the
\* constructor and nothing is started.  A service is named by its position
\* in the order of construction.
ServiceManagerInit ==
    /\ reg_pc = "new"
    /\ LET srv_ids == [k \in 1..Len(reg_in) |-> reg_in[k].service_id]
           a == AssignIds(srv_ids, 1)
           perm == SortedPositions(a.ids) IN
       IF ValidateAll(reg_in, 1, <<>>) /\ a.ok
       THEN /\ reg_pc' = "started"
            /\ reg_objects' = [i \in 1..Len(reg_in) |->
                                 [reg_in[perm[i]] EXCEPT !.service_id = a.ids[perm[i]]]]
            /\ reg_names' = perm
       ELSE /\ reg_pc' = "failed"
            /\ UNCHANGED <<reg_objects, reg_names>>
    /\ UNCHANGED <<cacheVars, engineVars, callerVars, authVars, lifeVars, groupVars,
                   reg_in, scanVars, indexVars, callVars, bootVars>>
\* ServiceManager.get_services: enumerate(self.srv_names)
get_services == [i \in 1..Len(reg_names) |-> [id |-> i - 1, name |-> reg_names[i]]]

\* ---- the services tried
MaxRegister == 3
IdInputs == {NoneId, 0, 1, 2}
\* threads, processes, timeout, max_timeouts
NumericInputs == {<<1, 0, 0, 0>>, <<0, 1, 1, 1>>, <<0, 0, 0, 0>>, <<-1, 1, 0, 0>>,
                  <<1, 0, -1, 0>>, <<1, 0, 0, -1>>}
RegDescriptors ==
    {Descriptor(i, c[1], c[2], c[3], c[4]) : i \in IdInputs, c \in NumericInputs}
RegInputs == UNION {[1..n -> RegDescriptors] : n \in 1..MaxRegister}

InitRegister ==
    /\ InitCache /\ InitCallers /\ InitEngine(0, 0)
    /\ InitAuth(IniPath, FALSE, InitialTokens) /\ InitLife /\ InitGroup /\ InitScan
    /\ reg_in \in RegInputs
    /\ reg_pc = "new"
    /\ reg_objects = <<>>
    /\ reg_names = <<>>

NextRegister == ServiceManagerInit

SpecRegister == InitRegister /\ [][NextRegister]_vars

\* ---- C22
\* the name of the service that was constructed k-th is at this position
PositionOf(k) == CHOOSE p \in 1..Len(reg_names) : reg_names[p] = k
\* the id the service constructed k-th ended up with
AssignedId(k) == reg_objects[PositionOf(k)].service_id
\* the ids taken when the k-th service gets its id: the explicit ids and the
\* ids filled in before
TakenBefore(k) ==
    {reg_in[j].service_id : j \in {x \in 1..Len(reg_in) : reg_in[x].service_id # NoneId}}
        \cup {AssignedId(j) : j \in {x \in 1..(k - 1) : reg_in[x].service_id = NoneId}}
\* C22: after a successful registration of n services the service ids are
\* exactly 0..n-1 without duplicates, an explicit id is kept, a missing id is
\* the lowest value unused when it was filled, and the service at list
\* position i has service id i.
C22_RegisteredIds ==
    reg_pc = "started" =>
        LET n == Len(reg_in) IN
        /\ Len(reg_objects) = n /\ Len(reg_names) = n
        /\ {reg_names[p] : p \in 1..n} = 1..n
        /\ {reg_objects[p].service_id : p \in 1..n} = 0..(n - 1)
        /\ \A p \in 1..n : /\ reg_objects[p].service_id = p - 1
                           /\ get_services[p].id = reg_objects[p].service_id
        /\ \A k \in 1..n :
              IF reg_in[k].service_id # NoneId
              THEN AssignedId(k) = reg_in[k].service_id
              ELSE /\ AssignedId(k) \notin TakenBefore(k)
                   /\ \A i \in 0..(AssignedId(k) - 1) : i \in TakenBefore(k)
\* three services with explicit and missing ids were registered and sorted
\* into another order than the order of construction
C22_Witness ==
    /\ reg_pc = "started"
    /\ Len(reg_in) = 3
    /\ \E j, k \in 1..3 : reg_in[j].service_id = NoneId /\ reg_in[k].service_id # NoneId
    /\ reg_names # <<1, 2, 3>>

\* ---- C23
\* the descriptor constraints
DescriptorValid(srv) ==
    /\ srv.threads >= 0
    /\ srv.processes >= 0
    /\ srv.threads + srv.processes >= 1
    /\ srv.timeout >= 0
    /\ srv.max_timeouts >= 0
\* C23: the registration fails when a descriptor has threads < 0,
\* processes < 0, threads + processes < 1, timeout < 0 or max_timeouts < 0;
\* no service with such a descriptor is started.
C23_InvalidDescriptorFails ==
    reg_pc = "started" => \A k \in 1..Len(reg_in) : DescriptorValid(reg_in[k])

\* ---- C24
\* the caller waits in its result loop for the request worker w is working on
WaitsFor(c, w) == c_pc[c] = "loop" /\ srv_values[w] # 0 /\ c_req_id[c] = srv_values[w]
\* C24 as stated: once the Supervisor has restarted a worker that was stuck on
\* a request, the request id of the caller waiting for it is no longer pending,
\* so that the caller's next pending check ends the call with the
\* incomplete-result error.
C24_RestartEndsCall ==
    [][T_Restart =>
          \A c \in Callers :
              WaitsFor(c, t_thread) => c_req_id[c] \notin LedgerIds(db_request_dicts')]_vars
\* C24: the restart of a worker that was stuck on a request leaves both
\* ledgers as they are and puts the request's payload back on the input queue
\* under an id of the ledger; the id of the waiting caller is still pending
\* after the restart, so its pending check does not end the call.
C24_RestartRequeues ==
    [][T_Restart =>
          LET id == srv_values[t_thread] IN
          /\ UNCHANGED <<man_request_dicts, db_request_dicts>>
          /\ (id # 0 /\ id \in LedgerIds(man_request_dicts))
                => /\ Len(input_q') = Len(input_q) + 1
                   /\ input_q'[Len(input_q')].req = LedgerGet(man_request_dicts, id)
                   /\ input_q'[Len(input_q')].id \in LedgerIds(man_request_dicts)
          /\ \A c \in Callers :
                (WaitsFor(c, t_thread) /\ c_req_id[c] \in LedgerIds(db_request_dicts))
                    => c_req_id[c] \in LedgerIds(db_request_dicts')]_vars
\* a worker took a caller's request, was restarted, and the request is back
\* on the input queue while the caller still waits with its id pending
C24_Witness ==
    \E c \in Callers, w \in Threads :
        /\ n_restarts > 0
        /\ c_pc[c] = "loop"
        /\ w_taken[w] = c_req_id[c]
        /\ w_pc[w] = "top"
        /\ c_req_id[c] \in LedgerIds(db_request_dicts)
        /\ \E i \in 1..Len(input_q) : input_q[i].id = c_req_id[c]

\* ================================================ the garbage collectors
\* An unsupervised service (timeout 0) whose run() never returns: every
\* request is "hang", so a worker that took one stays in run().  Both
\* collectors scan when their queue is empty, and the clock advances.
IdleWorkerStep(w) == W_Top(w) \/ W_Get(w) \/ W_Begin(w)
NextIdle ==
    \/ \E c \in Callers : GetServiceCall(c, "hang", TRUE)
    \/ \E c \in Callers : CallerStep(c)
    \/ \E w \in Threads : IdleWorkerStep(w)
    \/ DbGcEvent
    \/ DbGcIdle
    \/ ManGcIdle
    \/ Tick

SpecIdle == Init /\ [][NextIdle]_vars
\* the collectors and the clock keep running and a caller keeps polling
SpecIdleFair ==
    /\ SpecIdle
    /\ WF_vars(ManGcIdle) /\ WF_vars(DbGcIdle) /\ WF_vars(DbGcEvent) /\ WF_vars(Tick)
    /\ \A c \in Callers : WF_vars(CallerStep(c))

\* ---- C25
\* the caller waits for a request that the ServiceManager's collector has seen
\* at an idle scan early enough for the clock of the model (which stops at
\* MaxTime) to pass max_service_run_time after it, and no other call is
\* between get_next_index and its ledger writes (it could write the entry
\* anew after the clock has stopped)
SeenInTime(c) ==
    /\ c_pc[c] = "loop"
    /\ \A d \in Callers : c_pc[d] \in {"idle", "loop"}
    /\ c_req_id[c] \in PendingIds(man_pending)
    /\ FirstSeen(man_pending, c_req_id[c]) + max_service_run_time < MaxTime
\* the call has returned the incomplete-result error and no ledger holds its id
GaveUp(c) ==
    /\ c_pc[c] = "idle"
    /\ c_ret[c].state = "ERROR"
    /\ c_req_id[c] \notin LedgerIds(man_request_dicts)
    /\ c_req_id[c] \notin LedgerIds(db_request_dicts)
\* C25: a request no worker ever completes does not stay in the pending
\* ledger: with the collectors' queues idle the idle scans remove its entry
\* once max_service_run_time has passed, and the caller waiting for it returns
\* the incomplete-result error.
C25_AbandonedRequestCollected == \A c \in Callers : SeenInTime(c) ~> GaveUp(c)
\* a caller has given up on a request a worker is still inside, and the
\* service's pending count is 0
C25_Witness ==
    \E c \in Callers, w \in Threads :
        /\ GaveUp(c)
        /\ w_pc[w] = "run"
        /\ w_request[w].id = c_req_id[c]
        /\ man_request_dicts = <<>>

\* ---- C29
\* the ids a step removes from a ledger
Removed(l, l2) == LedgerIds(l) \ LedgerIds(l2)
\* a worker's current request id
InFlightIds == {srv_values[w] : w \in Threads} \ {0}
\* C29 as stated: an idle scan removes a ledger entry only if the request has
\* been pending longer than max_service_run_time and no worker is processing
\* its request id.
C29_ScanSparesInFlight ==
    [][/\ ManGcIdle =>
             \A id \in Removed(man_request_dicts, man_request_dicts') :
                 /\ id \in PendingIds(man_pending)
                 /\ now - FirstSeen(man_pending, id) > max_service_run_time
                 /\ id \notin InFlightIds
       /\ DbGcIdle =>
             \A id \in Removed(db_request_dicts, db_request_dicts') :
                 id \in db_pending /\ id \notin InFlightIds]_vars
\* C29: the idle scan of the ServiceManager's collector removes an entry only
\* if the collector saw it at an earlier idle scan more than
\* max_service_run_time ago; the idle scan of the DatabaseManager's collector
\* removes an entry only if it saw it at its previous idle scan and the
\* ServiceManager's ledger no longer holds the id.  Neither looks at the workers.
C29_ScanRemovesAged ==
    [][/\ ManGcIdle =>
             \A id \in Removed(man_request_dicts, man_request_dicts') :
                 /\ id \in PendingIds(man_pending)
                 /\ now - FirstSeen(man_pending, id) > max_service_run_time
       /\ DbGcIdle =>
             \A id \in Removed(db_request_dicts, db_request_dicts') :
                 id \in db_pending /\ id \notin LedgerIds(man_request_dicts)]_vars
\* the idle scans have removed the entry of a request a worker is inside
C29_Witness ==
    \E w \in Threads :
        /\ w_pc[w] = "run"
        /\ srv_values[w] # 0
        /\ man_pending = <<>>
        /\ srv_values[w] \notin LedgerIds(man_request_dicts)
        /\ srv_values[w] \notin LedgerIds(db_request_dicts)

\* ---- C28
\* Callers, workers and the two collectors' event handling on a service whose
\* run() returns.
NextCollect ==
    \/ \E c \in Callers : GetServiceCall(c, "a", TRUE)
    \/ \E c \in Callers : CallerStep(c)
    \/ \E w \in Threads : WorkerStep(w)
    \/ ManGcEvent
    \/ DbGcEvent

SpecCollect == Init /\ [][NextCollect]_vars

\* C28: once the worker has published the response of a request and the
\* ServiceManager's collector has processed its completion event, the id is
\* absent from the ServiceManager's pending ledger, and stays absent.
C28_CollectedStaysAbsent ==
    \A id \in man_collected : id \notin LedgerIds(man_request_dicts)

\* ---- C26: get_next_index at the width of the source
\* 4294967295, the limit of get_next_index
UINT32_MAX == Wide(65535, 65535)
\* a >= b
WideGe(a, b) == a.hi > b.hi \/ (a.hi = b.hi /\ a.lo >= b.lo)
\* a mutation of WideInc: the carry into the upper half is lost
M_WideInc(a) == IF a.lo = 65535 THEN Wide(a.hi, 0) ELSE Wide(a.hi, a.lo + 1)
\* a + 1 (a Python int does not overflow)
WideInc(a) == IF a.lo = 65535 THEN Wide(a.hi + 1, 0) ELSE Wide(a.hi, a.lo + 1)

\* a thread enters get_next_index: if self.counter >= 4294967295
IndexTest(t) ==
    /\ nx_pc[t] = "idle"
    /\ nx_calls[t] < MaxIndexCalls
    /\ nx_calls' = [nx_calls EXCEPT ![t] = @ + 1]
    /\ nx_pc' = [nx_pc EXCEPT ![t] =
                   IF WideGe(nx_counter, UINT32_MAX) THEN "reset" ELSE "load"]
    /\ nx_raced' = (nx_raced \/ \E v \in Callers \ {t} : nx_pc[v] # "idle")
    /\ UNCHANGED <<nx_counter, nx_index, nx_ret, nx_last>>
    /\ UNCHANGED <<cacheVars, queueVars, callerVars, workerVars, dummyVars, superVars,
                   authVars, lifeVars, groupVars, regVars, scanVars, callVars, bootVars>>
\* self.counter = 0
IndexReset(t) ==
    /\ nx_pc[t] = "reset"
    /\ nx_counter' = Wide(0, 0)
    /\ nx_pc' = [nx_pc EXCEPT ![t] = "load"]
    /\ UNCHANGED <<nx_index, nx_ret, nx_calls, nx_last, nx_raced>>
    /\ UNCHANGED <<cacheVars, queueVars, callerVars, workerVars, dummyVars, superVars,
                   authVars, lifeVars, groupVars, regVars, scanVars, callVars, bootVars>>
\* self.counter += 1, the load
IndexLoad(t) ==
    /\ nx_pc[t] = "load"
    /\ nx_index' = [nx_index EXCEPT ![t] = nx_counter]
    /\ nx_pc' = [nx_pc EXCEPT ![t] = "store"]
    /\ UNCHANGED <<nx_counter, nx_ret, nx_calls, nx_last, nx_raced>>
    /\ UNCHANGED <<cacheVars, queueVars, callerVars, workerVars, dummyVars, superVars,
                   authVars, lifeVars, groupVars, regVars, scanVars, callVars, bootVars>>
\* self.counter += 1, the store
IndexStore(t) ==
    /\ nx_pc[t] = "store"
    /\ nx_counter' = WideInc(nx_index[t])
    /\ nx_pc' = [nx_pc EXCEPT ![t] = "return"]
    /\ UNCHANGED <<nx_index, nx_ret, nx_calls, nx_last, nx_raced>>
    /\ UNCHANGED <<cacheVars, queueVars, callerVars, workerVars, dummyVars, superVars,
                   authVars, lifeVars, groupVars, regVars, scanVars, callVars, bootVars>>
\* return self.counter
IndexReturn(t) ==
    /\ nx_pc[t] = "return"
    /\ nx_ret' = [nx_ret EXCEPT ![t] = nx_counter]
    /\ nx_last' = nx_counter
    /\ nx_pc' = [nx_pc EXCEPT ![t] = "idle"]
    /\ UNCHANGED <<nx_counter, nx_index, nx_calls, nx_raced>>
    /\ UNCHANGED <<cacheVars, queueVars, callerVars, workerVars, dummyVars, superVars,
                   authVars, lifeVars, groupVars, regVars, scanVars, callVars, bootVars>>

\* the values of the counter the runs start from: a fresh server, and one
\* that has issued nearly 2^32 ids
IndexStarts == {Wide(0, 0), Wide(0, 65535), Wide(65535, 65533), Wide(65535, 65534),
                UINT32_MAX}

InitWrap ==
    /\ InitCache /\ InitCallers /\ InitEngine(0, 0)
    /\ InitAuth(IniPath, FALSE, InitialTokens) /\ InitLife /\ InitGroup
    /\ reg_in = <<DefaultService>>
    /\ reg_pc = "started"
    /\ reg_objects = <<[DefaultService EXCEPT !.service_id = 0]>>
    /\ reg_names = <<1>>
    /\ man_pending = <<>>
    /\ db_pending = {}
    /\ man_collected = {}
    /\ InitCall
    /\ \E c0 \in IndexStarts : InitIndex(c0)

\* The threads of the server calling get_next_index, which takes no lock.
NextWrap ==
    \E t \in Callers :
        IndexTest(t) \/ IndexReset(t) \/ IndexLoad(t) \/ IndexStore(t) \/ IndexReturn(t)

SpecWrap == InitWrap /\ [][NextWrap]_vars

\* what the claim says of an id returned after the id prev
IndexInOrder(prev, id) ==
    /\ id # Wide(0, 0)
    /\ WideGe(UINT32_MAX, id)
    /\ id = IF prev = UINT32_MAX THEN Wide(0, 1) ELSE WideInc(prev)

\* C26: get_next_index never returns 0; the id issued after 4294967295 is 1
\* and no id is larger than 4294967295; between wraps each id is the one
\* returned before it plus 1.
C26_NextIndex ==
    [][\A t \in Callers : IndexReturn(t) => IndexInOrder(nx_last, nx_ret'[t])]_vars
\* the same while no two calls have overlapped
C26_NextIndexAlone ==
    [][\A t \in Callers :
          IndexReturn(t) /\ ~nx_raced => IndexInOrder(nx_last, nx_ret'[t])]_vars
\* calls that did not overlap have wrapped from 4294967295 to 1
C26_WitnessAlone ==
    /\ ~nx_raced
    /\ \E t \in Callers : nx_pc[t] = "idle" /\ nx_calls[t] = MaxIndexCalls
                          /\ nx_ret[t] = Wide(0, 1)

\* ---- C27
\* Callers of two different requests, the worker and the DatabaseManager's
\* collector handling the callers' events: a caller may take the other
\* caller's response off the output queue.
NextPark ==
    \/ \E c \in Callers, p \in Requests : GetServiceCall(c, p, TRUE)
    \/ \E c \in Callers : CallerStep(c)
    \/ \E w \in Threads : WorkerStep(w)
    \/ DbGcEvent

SpecPark == Init /\ [][NextPark]_vars
\* every caller thread inside its result loop keeps being scheduled
SpecParkFair == SpecPark /\ \A c \in Callers : WF_vars(CallerStep(c))

\* the request ids of the entries of a tmp queue
TmpIds(q) == {q[i].id : i \in 1..Len(q)}
\* the cache holds out under key
Cached(c, key, out) == \E k \in 1..Len(c) : c[k].key = key /\ c[k].out = out
\* what a step of caller c may do with the parked entry e
ParkedFate(c, e) ==
    \/ e.id \in TmpIds(tmp_results')
    \/ /\ e.n + 1 < TMP_RETRY
       /\ e.id = c_req_id[c]
       /\ c_pc'[c] = "idle"
       /\ c_ret'[c].state = "OK"
       /\ c_ret'[c].val = <<[ts |-> now, out |-> e.out.v[1]]>>
    \/ /\ e.n + 1 >= TMP_RETRY
       /\ IF e.id \in LedgerIds(db_request_dicts)
          THEN Cached(service_outputs', LedgerGet(db_request_dicts, e.id).v[1], e.out.v[1])
          ELSE TRUE

\* C27, at every step: while request ids are distinct, a response a caller takes off the
\* output queue for another id is parked on the tmp queue; a parked response
\* leaves the tmp queue only by being returned to the caller with its id, by
\* being written to the cache under the payload the ledger holds for its id,
\* or, when the ledger no longer holds its id, by being dropped; a caller is
\* never handed a response of another id.
C27_ParkedNotLost ==
    [][\A c \in Callers :
          Loop(c) /\ ~id_clash =>
              /\ \A i \in 1..Len(tmp_results) : ParkedFate(c, tmp_results[i])
              /\ output_q' # output_q /\ Head(output_q).id # c_req_id[c]
                     => Head(output_q).id \in TmpIds(tmp_results')
              /\ c_pc'[c] = "idle" /\ c_ret'[c].src = "tmp"
                     => c_req_id[c] \in TmpIds(tmp_results) \ TmpIds(tmp_results')
              /\ c_pc'[c] = "idle" /\ c_ret'[c].src = "queue"
                     => Head(output_q).id = c_req_id[c]]_vars
\* the owner of the parked response of id is inside its result loop
OwnerWaits(id) == \E c \in Callers : c_pc[c] = "loop" /\ c_req_id[c] = id
\* C27, eventually: a parked response whose owner waits does not stay on the
\* tmp queue for ever
C27_ParkedLeaves ==
    \A id \in 1..NumCallers :
        (id \in TmpIds(tmp_results) /\ OwnerWaits(id))
            ~> (id \notin TmpIds(tmp_results) \/ ~OwnerWaits(id))
BlockedOnInput(w) == w_pc[w] = "get" /\ srv_awaiting[w]
\* C30: a worker blocked on input never has its stall counter incremented, is
\* never restarted and never adds to the service's timeout count, whatever
\* the interleaving of the worker's and the Supervisor's steps.
C30_BlockedWorkerUntouched ==
    [][\A w \in Threads :
          BlockedOnInput(w) =>
              /\ counters'[w] <= counters[w]
              /\ t_thread = w => n_restarts' = n_restarts
              /\ t_thread = w => srv_timeout_counters' = srv_timeout_counters]_vars

\* ---- C31
\* Services with and without supervision (timeout 0 or 1 cycle) and with and
\* without a limit of stalls (max_timeouts 0 or 1); the first caller's request
\* never returns from run(), the others' requests do; the Supervisor's cycles
\* are observed until MaxStalls stalls have been counted.
InitSupervise ==
    /\ InitCache /\ InitCallers /\ InitQueues /\ InitWorkers /\ InitDummy
    /\ \E timeout \in {0, 1}, max_timeouts \in {0, 1} : InitSuper(timeout, max_timeouts)
    /\ InitApi

NextSupervise ==
    \/ \E c \in Callers : GetServiceCall(c, IF c = 1 THEN "hang" ELSE "a", TRUE)
    \/ \E c \in Callers : CallerStep(c)
    \/ \E w \in Threads : WorkerStep(w)
    \/ \E d \in Threads : DummyStep(d)
    \/ (srv_timeout_counters < MaxStalls /\ T_Check)
    \/ T_Restart
    \/ T_StopKill

SpecSupervise == InitSupervise /\ [][NextSupervise]_vars

InitBesidesCall ==
    /\ InitCache /\ InitCallers /\ InitEngine(0, 0)
    /\ InitAuth(IniPath, FALSE, InitialTokens) /\ InitLife /\ InitGroup
    /\ reg_in = <<DefaultService>>
    /\ reg_pc = "started"
    /\ reg_objects = <<[DefaultService EXCEPT !.service_id = 0]>>
    /\ reg_names = <<1>>
    /\ man_pending = <<>>
    /\ db_pending = {}
    /\ man_collected = {}
    /\ InitIndex(Wide(0, 0))

\* something a service returns that is not a dict
NotDict == [kind |-> "notdict", arg |-> NoKey]
\* check_result: the result is a dict
ValidResult(x) == x.kind = "out"
\* a mutation of WorkerListOutput: the lengths are not compared
M_WorkerListOutput(request, allow_list, ret) ==
    IF ret.kind # "raise" /\ (allow_list => ret.kind = "list")
       /\ \A i \in 1..Len(ret.v) : ValidResult(ret.v[i])
    THEN [list |-> TRUE, v |-> ret.v]
    ELSE [list |-> TRUE, v |-> [i \in 1..Len(request.v) |-> ExcOutput]]
\* _worker's try/except for a list payload.  ret is what the service did:
\* with allow_list what run_list returned (a list, something else, or an
\* exception), without it what run returned for the elements up to the first
\* exception.  Anything but len(request) dicts gives the uniform error, one
\* copy per element.
WorkerListOutput(request, allow_list, ret) ==
    IF /\ ret.kind # "raise"
       /\ allow_list => ret.kind = "list"
       /\ \A i \in 1..Len(ret.v) : ValidResult(ret.v[i])
       /\ Len(request.v) = Len(ret.v)
    THEN [list |-> TRUE, v |-> ret.v]
    ELSE [list |-> TRUE, v |-> [i \in 1..Len(request.v) |-> ExcOutput]]

\* the list payloads a worker takes
WorkerLists == UNION {[1..n -> Requests] : n \in 1..MaxListLen}
\* what a service may hand back: lists of results of every length up to one
\* more than the payload's, something that is not a list, an exception
ReturnedItems == {RunOutput(p) : p \in Requests} \cup {NotDict}
ReturnedLists == UNION {[1..n -> ReturnedItems] : n \in 0..(MaxListLen + 1)}
RunListReturns ==
    {[kind |-> "list", v |-> v] : v \in ReturnedLists}
        \cup {[kind |-> "other", v |-> <<>>], [kind |-> "raise", v |-> <<>>]}
\* run per element: a result for each element, or an exception after some
RunReturns(n) ==
    {[kind |-> "each", v |-> v] : v \in [1..n -> ReturnedItems]}
        \cup {[kind |-> "raise", v |-> v] :
                 v \in UNION {[1..k -> ReturnedItems] : k \in 0..(n - 1)}}
WorkerCalls ==
    {[op |-> "worker", allow_list |-> TRUE, request |-> List(rs), ret |-> r] :
        rs \in WorkerLists, r \in RunListReturns}
    \cup UNION {{[op |-> "worker", allow_list |-> FALSE, request |-> List(rs), ret |-> r] :
                    r \in RunReturns(Len(rs))} : rs \in WorkerLists}
    \cup {[op |-> "dummy", request |-> List(rs), message |-> TIMEOUT_MESSAGE] :
             rs \in WorkerLists}

InitOutput ==
    /\ InitBesidesCall
    /\ h_pc = "new"
    /\ h_arg \in WorkerCalls
    /\ h_res = NoCall

\* _worker from the request taken to the output it publishes
WorkerOutput ==
    /\ h_pc = "new"
    /\ h_arg.op = "worker"
    /\ h_res' = WorkerListOutput(h_arg.request, h_arg.allow_list, h_arg.ret)
    /\ h_pc' = "done"
    /\ UNCHANGED <<cacheVars, engineVars, callerVars, authVars, lifeVars, groupVars,
                   regVars, scanVars, indexVars, bootVars, h_arg>>
\* _dummy_worker from the request taken to the output it publishes
DummyWorkerOutput ==
    /\ h_pc = "new"
    /\ h_arg.op = "dummy"
    /\ h_res' = DummyServiceOutput(h_arg.request, h_arg.message)
    /\ h_pc' = "done"
    /\ UNCHANGED <<cacheVars, engineVars, callerVars, authVars, lifeVars, groupVars,
                   regVars, scanVars, indexVars, bootVars, h_arg>>

NextOutput == WorkerOutput \/ DummyWorkerOutput

SpecOutput == InitOutput /\ [][NextOutput]_vars

\* the service handed back one dict for each element of the payload
ReturnedAll(call) ==
    /\ call.ret.kind = (IF call.allow_list THEN "list" ELSE "each")
    /\ Len(call.ret.v) = Len(call.request.v)
    /\ \A i \in 1..Len(call.ret.v) : call.ret.v[i].kind = "out"

\* C32: for a list payload of N requests the published output is a list of
\* exactly N elements: the service's outputs when it returned N valid
\* results, otherwise N copies of the uniform error result, and N copies of
\* the canned message for a dummy worker.
C32_ListOutputLength ==
    (h_pc = "done" /\ h_arg.op \in {"worker", "dummy"}) =>
        /\ h_res.list
        /\ Len(h_res.v) = Len(h_arg.request.v)
        /\ h_arg.op = "worker" =>
              IF ReturnedAll(h_arg) THEN h_res.v = h_arg.ret.v
              ELSE \A i \in 1..Len(h_res.v) : h_res.v[i] = ExcOutput
        /\ h_arg.op = "dummy" =>
              \A i \in 1..Len(h_res.v) : h_res.v[i] = DummyOutput(h_arg.message)
\* run_list returned valid results, one more than the payload has elements,
\* and the worker published the error for each element
C32_Witness ==
    /\ h_pc = "done"
    /\ h_arg.op = "worker"
    /\ h_arg.allow_list
    /\ h_arg.ret.kind = "list"
    /\ Len(h_arg.ret.v) = Len(h_arg.request.v) + 1
    /\ \A i \in 1..Len(h_arg.ret.v) : h_arg.ret.v[i].kind = "out"
    /\ h_res.v = [i \in 1..Len(h_arg.request.v) |-> ExcOutput]

\* ---- C33: the service id checks of the ServiceManager
\* a value passed as a service id: an int, or something else (v is then 0)
IntArg(v) == [int |-> TRUE, v |-> v]
NotInt == [int |-> FALSE, v |-> 0]
\* ServiceManager.validate_service_id, with n == len(self.srv_names)
validate_service_id(service_id, n) ==
    IF ~service_id.int THEN FALSE
    ELSE IF service_id.v > n \/ service_id.v < 0 THEN FALSE
    ELSE TRUE
\* ServiceManager.validate_requests
validate_requests(requests) == \A i \in 1..Len(requests) : validate_request(requests[i])
\* what a call returned or raised, and whether it put an item on an input queue
Returned(ret, enqueued) == [ret |-> ret, enqueued |-> enqueued]
\* self.srv_queues[service_id] and self.request_dicts[service_id] have one
\* entry per service: index n raises IndexError
\* ServiceManager.run_service
run_service(service_id, request, n) ==
    IF ~validate_service_id(service_id, n) THEN Returned("None", FALSE)
    ELSE IF ~validate_request(request) THEN Returned("None", FALSE)
    ELSE IF service_id.v >= n THEN Returned("IndexError", FALSE)
    ELSE Returned("id", TRUE)
\* ServiceManager.run_service_list
run_service_list(service_id, request_list, n) ==
    IF ~validate_service_id(service_id, n) THEN Returned("None", FALSE)
    ELSE IF ~validate_requests(request_list) THEN Returned("None", FALSE)
    ELSE IF service_id.v >= n THEN Returned("IndexError", FALSE)
    ELSE Returned("id", TRUE)
\* ServiceManager.is_pending, with the ledger of the service
is_pending(service_id, request_id, n, ledger) ==
    IF ~validate_service_id(service_id, n) THEN Returned("None", FALSE)
    ELSE IF ~request_id.int THEN Returned("None", FALSE)
    ELSE IF service_id.v >= n THEN Returned("IndexError", FALSE)
    ELSE IF request_id.v \in LedgerIds(ledger) THEN Returned("True", FALSE)
    ELSE Returned("False", FALSE)

\* the service ids tried: not an int, and the ints around 0..MaxRegister
ServiceIdArgs == {NotInt} \cup {IntArg(v) : v \in -1..(MaxRegister + 1)}
ManagerCalls ==
    {[op |-> "run_service", service_id |-> s, request |-> r] :
        s \in ServiceIdArgs, r \in ApiRequests}
    \cup {[op |-> "run_service_list", service_id |-> s, request_list |-> r] :
             s \in ServiceIdArgs, r \in ApiLists}
    \cup {[op |-> "is_pending", service_id |-> s, request_id |-> r] :
             s \in ServiceIdArgs, r \in {NotInt, IntArg(1)}}

\* a ServiceManager with 1 to MaxRegister services registered
InitManager ==
    /\ InitCache /\ InitCallers /\ InitEngine(0, 0)
    /\ InitAuth(IniPath, FALSE, InitialTokens) /\ InitLife /\ InitGroup
    /\ \E n \in 1..MaxRegister :
          /\ reg_in = [i \in 1..n |-> DefaultService]
          /\ reg_objects = [i \in 1..n |-> [DefaultService EXCEPT !.service_id = i - 1]]
          /\ reg_names = [i \in 1..n |-> i]
    /\ reg_pc = "started"
    /\ man_pending = <<>>
    /\ db_pending = {}
    /\ man_collected = {}
    /\ InitIndex(Wide(0, 0))
    /\ h_pc = "new"
    /\ h_arg \in ManagerCalls
    /\ h_res = NoCall

\* one call of run_service, run_service_list or is_pending
ManagerCall ==
    /\ h_pc = "new"
    /\ h_arg.op \in {"run_service", "run_service_list", "is_pending"}
    /\ h_res' = CASE h_arg.op = "run_service" ->
                       run_service(h_arg.service_id, h_arg.request, Len(reg_names))
                  [] h_arg.op = "run_service_list" ->
                       run_service_list(h_arg.service_id, h_arg.request_list, Len(reg_names))
                  [] h_arg.op = "is_pending" ->
                       is_pending(h_arg.service_id, h_arg.request_id, Len(reg_names),
                                  man_request_dicts)
    /\ h_pc' = "done"
    /\ UNCHANGED <<cacheVars, engineVars, callerVars, authVars, lifeVars, groupVars,
                   regVars, scanVars, indexVars, bootVars, h_arg>>

NextManager == ManagerCall

SpecManager == InitManager /\ [][NextManager]_vars

\* the service id is the id of a registered service
Registered(service_id) ==
    service_id.int /\ 0 <= service_id.v /\ service_id.v < Len(reg_names)

\* C33: validate_service_id(id) is true exactly when id is an integer with
\* 0 <= id < number of registered services, and run_service, run_service_list
\* and is_pending return None, enqueue nothing and raise nothing for every
\* service id that is not registered.
C33_UnregisteredIdRejected ==
    (h_pc = "done" /\ h_arg.op \in {"run_service", "run_service_list", "is_pending"}) =>
        /\ validate_service_id(h_arg.service_id, Len(reg_names)) <=> Registered(h_arg.service_id)
        /\ ~Registered(h_arg.service_id) => h_res = Returned("None", FALSE)

\* ---- C34: shutdown, initialize, start_services
\* the reference ServiceManager.shutdown leaves in srv_queues: (None, None)
NoQueue == 0
\* DatabaseManager.shutdown and in it ServiceManager.shutdown: the services
\* are stopped and killed, the queues destroyed, the cache cleared
shutdown ==
    /\ l_pc = "idle"
    /\ b_calls < MaxBootCalls
    /\ b_calls' = b_calls + 1
    /\ running' = FALSE
    /\ initialized' = FALSE
    /\ man_running' = FALSE
    /\ man_initialized' = FALSE
    /\ srv_running' = FALSE
    /\ w_pc' = [w \in Threads |-> "dead"]
    /\ w_request' = [w \in Threads |-> NoItem]
    /\ w_output' = [w \in Threads |-> NoOutput]
    /\ input_q' = <<>>
    /\ output_q' = <<>>
    /\ srv_queues' = NoQueue
    /\ service_outputs' = <<>>
    /\ lru_order' = <<>>
    /\ UNCHANGED <<now, last_evict, last_read, counter, tmp_results, man_request_dicts,
                   db_request_dicts, garbage_queue, man_garbage_queue, callerVars,
                   srv_states, srv_awaiting, srv_values, w_taken, w_puts, put_log,
                   dummyVars, srv_timeout, srv_max_timeouts, counters,
                   srv_timeout_counters, t_pc, t_thread, n_restarts, stop_ids, issued,
                   id_clash, authVars, groupVars, regVars, scanVars, indexVars, callVars,
                   l_pc, l_op, l_ret, l_calls, c_msg,
                   service_input_queues, service_output_queues, b_get>>
\* DatabaseManager.initialize: the queues are fetched from the ServiceManager
\* again; service_input_queues is emptied twice and service_output_queues
\* not at all, so the output queue fetched is appended to the old list
initialize ==
    /\ l_pc = "idle"
    /\ b_calls < MaxBootCalls
    /\ b_calls' = b_calls + 1
    /\ IF initialized \/ running
       THEN UNCHANGED <<initialized, service_input_queues, service_output_queues,
                        tmp_results, db_request_dicts>>
       ELSE /\ service_input_queues' = srv_queues
            /\ service_output_queues' = Append(service_output_queues, srv_queues)
            /\ tmp_results' = <<>>
            /\ db_request_dicts' = <<>>
            /\ initialized' = TRUE
    /\ UNCHANGED <<cacheVars, counter, input_q, output_q, man_request_dicts,
                   garbage_queue, man_garbage_queue, callerVars, workerVars, dummyVars,
                   superVars, authVars, lifeVars, groupVars, regVars, scanVars, indexVars,
                   callVars, man_initialized, srv_queues, b_get>>
\* a get_service for an authorized user once the calls above are done: the
\* request goes to service_input_queues[0], the answer is awaited on
\* service_output_queues[0]
GetAfter ==
    /\ l_pc = "idle"
    /\ b_get = "none"
    /\ running
    /\ b_get' = IF service_input_queues = NoQueue THEN "AttributeError"
                ELSE IF /\ service_input_queues = srv_queues
                        /\ service_output_queues[1] = srv_queues
                        /\ \E w \in Threads : w_pc[w] # "dead"
                     THEN "answered"
                     ELSE "unanswered"
    /\ UNCHANGED <<cacheVars, engineVars, callerVars, authVars, lifeVars, groupVars,
                   regVars, scanVars, indexVars, callVars, initialized, man_initialized,
                   srv_queues, service_input_queues, service_output_queues, b_calls>>

\* The administrator calls stop_services, start_services, shutdown and
\* initialize one at a time in any order; a request follows.
NextBoot ==
    \/ start_services
    \/ stop_services
    \/ StopKill
    \/ shutdown
    \/ initialize
    \/ GetAfter
    \/ \E w \in Threads : W_Top(w)

SpecBoot == Init /\ [][NextBoot]_vars

\* start_services has just returned True after a shutdown and an initialize
Restarted == l_op = "start" /\ l_ret /\ l_pc = "idle" /\ b_calls >= 2 /\ running
\* C34: after shutdown(), initialize(), start_services() the workers and the
\* queues of the services exist again, start_services returns True only if
\* the ServiceManager is running, and a get_service that follows is processed
\* by a worker.
C34_Reinitialize ==
    /\ (l_op = "start" /\ l_ret /\ l_pc = "idle" /\ running) => man_running
    /\ Restarted =>
          /\ srv_queues # NoQueue
          /\ \E w \in Threads : w_pc[w] # "dead"
          /\ b_get \in {"none", "answered"}

\* ============================================ the token endpoints (admin)
dispatchVars == <<cacheVars, callerVars, engineVars, lifeVars, groupVars, extVars>>

\* put_tokens: the four additions, in the order of the code
PutAll(a, p) ==
    LET g == IF p.group # "" THEN add_group(a, p.group, p.group_services) ELSE Done(a)
        u == IF p.user # "" THEN add_user(g.aman, p.user, p.user_services) ELSE Done(g.aman)
        s == IF p.superuser # "" THEN add_superuser(u.aman, p.superuser) ELSE Done(u.aman)
        d == IF p.admin # "" THEN add_admin(s.aman, p.admin) ELSE Done(s.aman)
    IN [ok |-> g.ok /\ u.ok /\ s.ok /\ d.ok, aman |-> d.aman,
        user_ok |-> p.user # "" /\ u.ok, group_ok |-> p.group # "" /\ g.ok]

\* del_tokens: the four removals, in the order of the code
DelAll(a, p) ==
    LET g == IF p.group # "" THEN remove_group(a, p.group) ELSE Done(a)
        u == IF p.user # "" THEN remove_user(g.aman, p.user) ELSE Done(g.aman)
        s == IF p.superuser # "" THEN remove_superuser(u.aman, p.superuser) ELSE Done(u.aman)
        d == IF p.admin # "" THEN remove_admin(s.aman, p.admin) ELSE Done(s.aman)
    IN [ok |-> g.ok /\ u.ok /\ s.ok /\ d.ok, aman |-> d.aman,
        user_ok |-> p.user # "" /\ u.ok, group_ok |-> p.group # "" /\ g.ok]

\* the end of put_tokens and del_tokens: get_config_diff against the saved
\* file, and save_tokens when something differs.  get_config_diff returns
\* None for a file that does not load: put_tokens then raises on len(None),
\* del_tokens reports the error; neither saves.
SaveChanges(a, ok, on_none) ==
    IF ~FileOk(tokens_path, tokens_file)
    THEN /\ a_ret' = on_none
         /\ UNCHANGED tokens_file
    ELSE IF ~ConfigDiffers(a, LoadFile(tokens_path, tokens_file))
    THEN /\ a_ret' = "Nothing was changed"
         /\ UNCHANGED tokens_file
    ELSE /\ a_ret' = IF ok THEN "OK" ELSE "ERROR"
         /\ tokens_file' = save_tokens(tokens_path, a)

Services(a, t) == IF t \in DOMAIN a.users THEN a.users[t] ELSE {}

\* PUT /server/tokens/
put_tokens(new_tokens, token) ==
    /\ IF ~authorize_admin(aman, token)
       THEN /\ a_ret' = "Insufficient permissions"
            /\ last_op' = [NoOp EXCEPT !.op = "put"]
            /\ UNCHANGED <<aman, tokens_file, revoked>>
       ELSE IF NothingProvided(new_tokens)
       THEN /\ a_ret' = "Nothing provided"
            /\ last_op' = [NoOp EXCEPT !.op = "put"]
            /\ UNCHANGED <<aman, tokens_file, revoked>>
       ELSE LET r == PutAll(aman, new_tokens)
                t == new_tokens.user IN
            /\ aman' = r.aman
            /\ SaveChanges(r.aman, r.ok, "TypeError")
            /\ revoked' = IF r.user_ok
                          THEN (revoked \ {<<t, s>> : s \in Services(r.aman, t)})
                               \cup {<<t, s>> : s \in Services(aman, t) \ Services(r.aman, t)}
                          ELSE revoked
            /\ last_op' = [NoOp EXCEPT !.op = "put", !.payload = new_tokens, !.ok = r.ok]
    /\ UNCHANGED <<tokens_path, bypass_user, last_auth, dispatchVars>>

\* DELETE /server/tokens/
del_tokens(to_delete, token) ==
    /\ IF ~authorize_admin(aman, token)
       THEN /\ a_ret' = "Insufficient permissions"
            /\ last_op' = [NoOp EXCEPT !.op = "del"]
            /\ UNCHANGED <<aman, tokens_file, revoked>>
       ELSE IF NothingProvided(to_delete)
       THEN /\ a_ret' = "Nothing provided"
            /\ last_op' = [NoOp EXCEPT !.op = "del"]
            /\ UNCHANGED <<aman, tokens_file, revoked>>
       ELSE LET r == DelAll(aman, to_delete)
                t == to_delete.user
                g == to_delete.group IN
            /\ aman' = r.aman
            /\ SaveChanges(r.aman, r.ok, "ERROR")
            /\ revoked' = IF r.user_ok
                          THEN revoked \cup {<<t, s>> : s \in AuthServices}
                          ELSE revoked
            /\ last_op' = [op |-> "del", payload |-> to_delete, ok |-> r.ok,
                           existed |-> g \in DOMAIN aman.groups,
                           referenced |-> \E u \in DOMAIN aman.users :
                                              Grp(g) \in Range(aman.users_mixed[u]),
                           removed |-> r.group_ok]
    /\ UNCHANGED <<tokens_path, bypass_user, last_auth, dispatchVars>>

\* GET /server/reload_tokens/: reload_tokens replaces the AuthManager by one
\* loaded from the tokens file, or keeps it when the file does not load
get_reload_tokens(token) ==
    /\ IF ~authorize_admin(aman, token)
       THEN /\ a_ret' = "Insufficient permissions"
            /\ UNCHANGED aman
       ELSE IF FileOk(tokens_path, tokens_file)
       THEN /\ aman' = LoadFile(tokens_path, tokens_file)
            /\ a_ret' = "Tokens Successfully reloaded"
       ELSE /\ a_ret' = "Tokens did not reloaded. Using old tokens."
            /\ UNCHANGED aman
    /\ last_op' = [NoOp EXCEPT !.op = "reload"]
    /\ UNCHANGED <<tokens_file, tokens_path, bypass_user, last_auth, revoked, dispatchVars>>

\* a call of AuthManager.authorize_user
AuthorizeUserCall(user_token, service_id) ==
    /\ last_auth' = [token |-> user_token, service |-> service_id,
                     result |-> authorize_user(aman, bypass_user, user_token, service_id)]
    /\ UNCHANGED <<aman, tokens_file, tokens_path, bypass_user, a_ret, last_op, revoked,
                   dispatchVars>>

\* ---- payloads with one part
GroupPayload(g, l) == [NoTokens EXCEPT !.group = g, !.group_services = l]
UserPayload(t, l) == [NoTokens EXCEPT !.user = t, !.user_services = l]
SuperuserPayload(t) == [NoTokens EXCEPT !.superuser = t]
\* the additions and the removals the admin makes one at a time
TokenEdits ==
    {NoTokens, GroupPayload("g", <<0>>), GroupPayload("g", <<1>>),
     UserPayload("user000001", <<Srv(0)>>), UserPayload("user000001", <<Grp("g")>>),
     UserPayload("USER000001", <<Srv(1)>>),
     SuperuserPayload("super00001")}
TokenDeletes ==
    {NoTokens, GroupPayload("g", <<>>), UserPayload("user000001", <<>>),
     UserPayload("USER000001", <<>>), SuperuserPayload("super00001")}
\* the tokens presented to the admin endpoints: the admin and one that is none
AdminCallers == {RootAdmin, "user000001"}

NextTokens ==
    \/ \E p \in TokenEdits, t \in AdminCallers : put_tokens(p, t)
    \/ \E p \in TokenDeletes, t \in AdminCallers : del_tokens(p, t)
    \/ \E t \in AdminCallers : get_reload_tokens(t)

\* the tokens file is a .json or an .ini file
InitTokens ==
    /\ InitCache /\ InitCallers /\ InitEngine(0, 0)
    /\ \E path \in {JsonPath, IniPath} : InitAuth(path, FALSE, InitialTokens)
    /\ InitLife
    /\ InitGroup
    /\ InitExt

\* The admin edits the tokens at run time and reloads them.
SpecTokens == InitTokens /\ [][NextTokens]_vars

\* ---- authorize_user on the tokens a server may be started with
StartFiles ==
    {f \in [groups : {EmptyDict, DictSet(EmptyDict, "g", <<1>>)},
            users : {EmptyDict} \cup {DictSet(EmptyDict, "user000001", l) :
                                        l \in {<<>>, <<Srv(0)>>, <<Grp("g")>>}},
            superusers : {<<RootSuperuser>>, <<RootSuperuser, "user000001">>},
            admins : {<<RootAdmin>>}] : FileOk(JsonPath, f)}

NextAuthorize == \E t \in AllTokens, s \in AuthServices : AuthorizeUserCall(t, s)

InitAuthorize ==
    /\ InitCache /\ InitCallers /\ InitEngine(0, 0)
    /\ \E f \in StartFiles, b \in BOOLEAN : InitAuth(JsonPath, b, f)
    /\ InitLife
    /\ InitGroup
    /\ InitExt

SpecAuthorize == InitAuthorize /\ [][NextAuthorize]_vars

\* C14: with the user bypass off authorize_user(token, service_id) is true
\* exactly when the token has a valid format and is a superuser or a user
\* whose expanded service set contains service_id; with the bypass on it is
\* true for every token, the format not being looked at.
C14_AuthorizeUser ==
    last_auth # NoAuth =>
        last_auth.result =
            IF bypass_user THEN TRUE
            ELSE /\ ValidateTokenFormat(last_auth.token)
                 /\ \/ last_auth.token \in Range(aman.superusers)
                    \/ /\ last_auth.token \in DOMAIN aman.users
                       /\ last_auth.service \in aman.users[last_auth.token]

\* a user that is no superuser was authorized for a service of its set, bypass off
C14_Witness ==
    /\ ~bypass_user
    /\ last_auth.token = "user000001"
    /\ last_auth.token \notin Range(aman.superusers)
    /\ last_auth.result

\* C15: with the bypass off, once a non-superuser token T was removed, or S
\* was removed from T's service set, authorize_user(T, S) is false in every
\* later state, whatever other token mutations, saves and reloads follow,
\* until T is added again with S.
C15_RevokedStaysRevoked ==
    \A r \in revoked :
        (~bypass_user /\ r[1] \notin Range(aman.superusers))
            => ~authorize_user(aman, bypass_user, r[1], r[2])

\* C16: remove_group(g) is rejected exactly when some existing user
\* references g; once no existing user references g the removal succeeds.
C16_RemoveGroupRejection ==
    (last_op.op = "del" /\ last_op.existed) => (last_op.removed = ~last_op.referenced)

\* ---- put_tokens followed by del_tokens of the same payload
\* the payloads that add a group, a user referencing that group, a superuser
\* and an admin, in any combination
PutDelPayloads ==
    {p \in TokenPayloads :
        /\ p # NoTokens
        /\ p.user # "" => (p.group # "" /\ Grp(p.group) \in Range(p.user_services))}

NextPutDel ==
    \/ \E p \in PutDelPayloads : last_op.op = "none" /\ put_tokens(p, RootAdmin)
    \/ \E p \in PutDelPayloads :
        last_op.op = "put" /\ last_op.payload = p /\ del_tokens(p, RootAdmin)

\* From the tokens the server was started with, which hold none of the
\* payload's entries: one put_tokens, then del_tokens of the same payload.
SpecPutDel == InitTokens /\ [][NextPutDel]_vars

\* C17: from a store that contains none of the payload's entries,
\* put_tokens(payload) followed by del_tokens(payload) leaves the store
\* (admins, superusers, groups, users, users in mixed form) as it was.
C17_PutDelRoundTrip ==
    last_op.op = "del" => aman = LoadFile(tokens_path, InitialTokens)

\* ---- rejected calls
\* the reasons for which get_service / get_service_list reject a call
ShouldReject(service_id, rs, token) ==
    \/ ~running
    \/ \E i \in 1..Len(rs) : ~validate_request(rs[i])
    \/ ParseInt(service_id) \notin RegisteredServices
    \/ ~authorize_user(aman, bypass_user, token, ParseInt(service_id))
\* the only reason is the token
OnlyUnauthorized(service_id, rs, token) ==
    /\ running
    /\ \A i \in 1..Len(rs) : validate_request(rs[i])
    /\ ParseInt(service_id) \in RegisteredServices
    /\ ~authorize_user(aman, bypass_user, token, ParseInt(service_id))
\* the step is a rejected call of c: no request id, nothing queued, the
\* ledgers and the cache as they were
RejectedFrame(c) ==
    /\ c_ret'[c].state = "REJECTED"
    /\ c_req_id'[c] = c_req_id[c]
    /\ UNCHANGED <<counter, issued, input_q, man_request_dicts, db_request_dicts,
                   service_outputs>>

\* C12: a get_service / get_service_list call that is rejected (server not
\* running, request fails validation, service id unknown or no integer, token
\* not authorized: 'Insufficient permissions') assigns no request id, puts
\* nothing on the input queue and leaves ledgers and cache unchanged.
C12_RejectedCallsChangeNothing ==
    [][\A c \in Callers, s \in ServiceIdInputs, t \in ApiTokens, caching \in BOOLEAN :
          /\ \A p \in ApiRequests :
                (get_service(c, s, p, t, caching) /\ ShouldReject(s, <<p>>, t))
                    => /\ RejectedFrame(c)
                       /\ OnlyUnauthorized(s, <<p>>, t)
                              => c_msg'[c] = "Insufficient permissions"
          /\ \A rs \in ApiLists :
                (get_service_list(c, s, rs, t, caching) /\ ShouldReject(s, rs, t))
                    => /\ RejectedFrame(c)
                       /\ OnlyUnauthorized(s, rs, t)
                              => c_msg'[c] = "Insufficient permissions"]_vars

\* a call was refused for its token while another caller's request is pending
C12_Witness ==
    \E c \in Callers :
        /\ c_ret[c].state = "REJECTED"
        /\ c_msg[c] = "Insufficient permissions"
        /\ db_request_dicts # <<>>

\* ---- the life cycle
LifeCall(op) == l_calls' = l_calls + 1 /\ l_op' = op

InFlight(w) ==
    /\ w_pc[w] \in {"run", "put"}
    /\ srv_values[w] = w_request[w].id
    /\ w_request[w].id \in LedgerIds(man_request_dicts)
C19_StopKeepsRequests ==
    [][(l_pc = "kill" /\ l_pc' = "idle") =>
          /\ \A w \in Threads :
                InFlight(w) =>
                    /\ w_request[w].id \in LedgerIds(man_request_dicts')
                    /\ w_request[w].id \in LedgerIds(db_request_dicts')
                    /\ \E i \in 1..Len(input_q') : input_q'[i] = w_request[w]
          /\ \A i \in 1..Len(input_q) :
                input_q[i] # Sentinel
                    => \E j \in 1..Len(input_q') : input_q'[j] = input_q[i]]_vars

\* ------------------------- the user tables of the AuthManager (C35)
\* One call of add_group, remove_group, add_user or remove_user on the
\* AuthManager; a refused call leaves the tables as they are.
AddGroupCall(group_name, group_services) ==
    /\ aman' = add_group(aman, group_name, group_services).aman
    /\ last_op' = [NoOp EXCEPT !.op = "add_group"]
    /\ UNCHANGED <<tokens_file, tokens_path, bypass_user, a_ret, last_auth, revoked>>
    /\ UNCHANGED <<cacheVars, queueVars, callerVars, workerVars, dummyVars, superVars,
                   lifeVars, groupVars, extVars>>

RemoveGroupCall(group_name) ==
    /\ aman' = remove_group(aman, group_name).aman
    /\ last_op' = [NoOp EXCEPT !.op = "remove_group"]
    /\ UNCHANGED <<tokens_file, tokens_path, bypass_user, a_ret, last_auth, revoked>>
    /\ UNCHANGED <<cacheVars, queueVars, callerVars, workerVars, dummyVars, superVars,
                   lifeVars, groupVars, extVars>>

AddUserCall(token, user_services) ==
    /\ aman' = add_user(aman, token, user_services).aman
    /\ last_op' = [NoOp EXCEPT !.op = "add_user"]
    /\ UNCHANGED <<tokens_file, tokens_path, bypass_user, a_ret, last_auth, revoked>>
    /\ UNCHANGED <<cacheVars, queueVars, callerVars, workerVars, dummyVars, superVars,
                   lifeVars, groupVars, extVars>>

RemoveUserCall(token) ==
    /\ aman' = remove_user(aman, token).aman
    /\ last_op' = [NoOp EXCEPT !.op = "remove_user"]
    /\ UNCHANGED <<tokens_file, tokens_path, bypass_user, a_ret, last_auth, revoked>>
    /\ UNCHANGED <<cacheVars, queueVars, callerVars, workerVars, dummyVars, superVars,
                   lifeVars, groupVars, extVars>>

\* the service lists the calls are made with
GroupEdits == {<<0>>, <<1>>, <<0, 1>>}
UserEdits == {<<>>, <<Srv(0)>>, <<Grp("g")>>, <<Srv(1), Grp("g")>>}

NextUsers ==
    \/ \E g \in GroupNames, s \in GroupEdits : AddGroupCall(g, s)
    \/ \E g \in GroupNames : RemoveGroupCall(g)
    \/ \E t \in UserTokens \cup MalformedTokens, s \in UserEdits : AddUserCall(t, s)
    \/ \E t \in UserTokens : RemoveUserCall(t)

\* The AuthManager has loaded a tokens file; groups and users are then added
\* and removed one call at a time.
SpecUsers == InitAuthorize /\ [][NextUsers]_vars

\* C35: after any sequence of add_group, remove_group, add_user and
\* remove_user the expanded user table and the mixed user table hold the
\* same tokens, and each user's expanded services are the integer ids of its
\* mixed entry together with the current service lists of the groups the
\* mixed entry names.
C35_UserTablesAgree ==
    /\ DOMAIN aman.users = DOMAIN aman.users_mixed
    /\ \A t \in DOMAIN aman.users \cap DOMAIN aman.users_mixed :
          /\ \A i \in 1..Len(aman.users_mixed[t]) :
                aman.users_mixed[t][i].kind = "grp"
                    => aman.users_mixed[t][i].name \in DOMAIN aman.groups
          /\ aman.users[t] = ExpandServices(aman.groups, aman.users_mixed[t])

\* ---- C36
\* the worker in slot w is a replacement that _restart_thread has started and
\* that has not taken a request off the input queue yet
ReplacementIdle(w) ==
    /\ n_restarts > 0
    /\ w_pc[w] \in {"top", "get"}
    /\ w_request[w] = NoItem
\* C36: once the Supervisor has restarted a stalled worker, the service's
\* cumulative timeout count is not incremented for that slot while the
\* replacement worker has not taken a request, whatever the interleaving of
\* the Supervisor's cycles and the replacement's first steps.
C36_StallCountedOnce ==
    [][\A w \in Threads :
          (ReplacementIdle(w) /\ t_thread = w)
              => srv_timeout_counters' = srv_timeout_counters]_vars

\* ---- C37
\* C37: every cache entry under key r holds the output a worker published
\* for payload r (for a list, for the element r at its position), whatever
\* the interleaving of the callers that share the output queue and the tmp
\* queue; no output produced for another request string is stored under r.
C37_CacheHoldsOwnOutput ==
    \A i \in 1..Len(service_outputs) :
        service_outputs[i].out = RunOutput(service_outputs[i].key)
\* the same while the request ids handed out have been distinct
C37_OwnOutputWithoutClash == ~id_clash => C37_CacheHoldsOwnOutput

\* ---- C38
\* a worker has published the response for the request id caller c waits
\* for: it is on the output queue or parked on the tmp queue
ResponsePublished(c) ==
    \/ \E i \in 1..Len(output_q) : output_q[i].id = c_req_id[c]
    \/ c_req_id[c] \in TmpIds(tmp_results)
\* C38: a get_service_list call that waits while a worker publishes the
\* response for its request id returns state OK with every position filled
\* (no null entry, no 'Results are incomplete' error), whichever caller takes
\* the response off the output queue first and however often the parked
\* response is inspected on the tmp queue.
C38_ListCallFilled ==
    [][\A c \in Callers :
          (/\ c_pc[c] = "loop" /\ c_request[c].list
           /\ ResponsePublished(c)
           /\ DistinctIds
           /\ c_pc'[c] = "idle")
              => /\ c_ret'[c].state = "OK"
                 /\ Len(c_ret'[c].val) = Len(c_request[c].v)
                 /\ \A i \in 1..Len(c_ret'[c].val) : c_ret'[c].val[i] # NullResult]_vars
\* a list call waits although its response was parked, has resolved itself
\* into the cache and is on no queue any more
C38_ResolvedAway ==
    \E c \in Callers :
        /\ DistinctIds
        /\ c_pc[c] = "loop" /\ c_request[c].list
        /\ ~ResponsePublished(c)
        /\ \A k \in 1..Len(input_q) : input_q[k].id # c_req_id[c]
        /\ \A w \in Threads : w_pc[w] \in {"top", "get"}
        /\ \A i \in 1..Len(c_to_request[c].v) :
              Cached(service_outputs, c_to_request[c].v[i], RunOutput(c_to_request[c].v[i]))

\* ------------------- ServiceManager.start step by step (C39, C40)
STARTUP_MESSAGE == "Service stopped due to startup timeout."

\* DatabaseManager.start_services and ServiceManager.start up to the start of
\* the workers: the service is marked running and its workers are started
\* (over whatever threads of the service are alive: "Continuing anyway")
start ==
    /\ l_pc = "idle"
    /\ l_calls < MaxLifeCalls
    /\ l_calls' = l_calls + 1
    /\ l_op' = "start"
    /\ IF running \/ ~initialized
       THEN /\ l_ret' = FALSE
            /\ UNCHANGED <<running, srv_running, w_pc, w_request, w_output, l_pc>>
       ELSE IF man_running \/ ~man_initialized
       THEN /\ running' = TRUE
            /\ l_ret' = TRUE
            /\ UNCHANGED <<srv_running, w_pc, w_request, w_output, l_pc>>
       ELSE /\ srv_running' = TRUE
            /\ w_pc' = [w \in Threads |-> "top"]
            /\ w_request' = [w \in Threads |-> NoItem]
            /\ w_output' = [w \in Threads |-> NoOutput]
            /\ l_pc' = "hook"
            /\ UNCHANGED <<running, l_ret>>
    /\ UNCHANGED <<cacheVars, queueVars, callerVars, srv_states, srv_awaiting, srv_values,
                   w_taken, w_puts, put_log, dummyVars, srv_timeout, srv_max_timeouts,
                   counters, srv_timeout_counters, t_pc, t_thread, n_restarts, stop_ids,
                   issued, id_clash, authVars, extVars, man_running, c_msg, groupVars>>

\* _call_service_start: the service's start() returns in time (ok), or it
\* raises or is killed at service_start_timeout; start() then calls
\* _stop_running_service(srv_id, True, "Service stopped due to startup
\* timeout."), whose first part lowers the flag and puts the Nones
call_service_start(ok) ==
    /\ l_pc = "hook"
    /\ IF ok
       THEN /\ l_pc' = "started"
            /\ UNCHANGED <<srv_running, input_q>>
       ELSE /\ srv_running' = FALSE
            /\ input_q' = input_q \o [i \in 1..(MaxThreads + 1) |-> Sentinel]
            /\ l_pc' = "hookkill"
    /\ UNCHANGED <<cacheVars, counter, output_q, tmp_results, man_request_dicts,
                   db_request_dicts, garbage_queue, man_garbage_queue, callerVars,
                   workerVars, dummyVars, srv_timeout, srv_max_timeouts, counters,
                   srv_timeout_counters, t_pc, t_thread, n_restarts, stop_ids, issued,
                   id_clash, authVars, extVars, running, man_running, l_op, l_ret,
                   l_calls, c_msg, groupVars>>

\* the rest of that _stop_running_service: _kill_service, the recovery and
\* rerun of the workers' requests, _start_dummy_service with the message
stop_running_service ==
    /\ l_pc = "hookkill"
    /\ input_q' = input_q \o RecoverAll(man_request_dicts, srv_values, 1)
    /\ srv_values' = [w \in Threads |-> 0]
    /\ w_pc' = [w \in Threads |-> "dead"]
    /\ w_request' = [w \in Threads |-> NoItem]
    /\ w_output' = [w \in Threads |-> NoOutput]
    /\ d_pc' = [d \in Threads |-> "top"]
    /\ d_message' = STARTUP_MESSAGE
    /\ l_pc' = "started"
    /\ UNCHANGED <<cacheVars, counter, output_q, tmp_results, man_request_dicts,
                   db_request_dicts, garbage_queue, man_garbage_queue, callerVars,
                   srv_states, srv_awaiting, w_taken, w_puts, put_log,
                   d_request, d_taken, d_puts,
                   superVars, authVars, extVars, running, man_running, l_op, l_ret,
                   l_calls, c_msg, groupVars>>

\* the end of ServiceManager.start (self.running = True; return True) and of
\* DatabaseManager.start_services (self.running = True; return True)
start_return ==
    /\ l_pc = "started"
    /\ man_running' = TRUE
    /\ running' = TRUE
    /\ l_ret' = TRUE
    /\ l_pc' = "idle"
    /\ UNCHANGED <<cacheVars, queueVars, callerVars, workerVars, dummyVars, superVars,
                   authVars, extVars, l_op, l_calls, c_msg, groupVars>>

\* ---- C39
\* A supervised service (timeout 1 cycle, max_timeouts 1) whose run() never
\* returns on the request "hang" of the one caller, while the admin stops
\* and starts the services.
InitGuard ==
    /\ InitCache /\ InitCallers /\ InitQueues /\ InitWorkers /\ InitDummy
    /\ InitSuper(1, 1)
    /\ InitApi

NextGuard ==
    \/ \E p \in StallRequests : GetServiceCall(1, p, TRUE)
    \/ CallerStep(1)
    \/ \E w \in Threads : WorkerStep(w)
    \/ \E d \in Threads : DummyStep(d)
    \/ T_Check
    \/ T_StopKill
    \/ stop_services
    \/ StopKill
    \/ start
    \/ \E ok \in BOOLEAN : call_service_start(ok)
    \/ stop_running_service
    \/ start_return

SpecGuard == InitGuard /\ [][NextGuard]_vars

\* C39: in every reachable state the service has dummy workers only while it
\* is marked not running: a service marked running has its real workers, one
\* per slot, and no dummy worker beside them on the input queue, also when
\* the Supervisor stops the service while the admin stops and starts it.
C39_NoDummyWhileRunning ==
    srv_running => \A d \in Threads : d_pc[d] = "none"
\* a real worker and a dummy worker of the running service both wait on its
\* input queue
C39_BothConsume ==
    /\ srv_running /\ man_running
    /\ \E w \in Threads : w_pc[w] = "get"
    /\ \E d \in Threads : d_pc[d] = "get"

\* ---- C40
\* One caller sends the request "a" to service 0 while the admin stops the
\* services and starts them again; the service's start() may fail.
NextHook ==
    \/ \E t \in ApiTokens : get_service(1, "0", "a", t, TRUE)
    \/ CallerStep(1)
    \/ \E w \in Threads : WorkerStep(w)
    \/ \E d \in Threads : DummyStep(d)
    \/ stop_services
    \/ StopKill
    \/ start
    \/ \E ok \in BOOLEAN : call_service_start(ok)
    \/ stop_running_service
    \/ start_return

SpecHook == InitServer /\ [][NextHook]_vars
\* the caller's thread, the dummy workers' threads and the admin's thread
\* inside start() keep being scheduled
SpecHookFair ==
    /\ SpecHook
    /\ WF_vars(CallerStep(1))
    /\ \A d \in Threads : WF_vars(DummyStep(d))
    /\ WF_vars(stop_running_service \/ start_return)

\* start() has returned after the service's start hook failed, and the admin
\* makes no further call
StartupFailed ==
    /\ l_pc = "idle" /\ l_op = "start" /\ l_ret
    /\ ~srv_running
    /\ d_message = STARTUP_MESSAGE
    /\ l_calls = MaxLifeCalls
\* C40: when the service's start hook fails or times out during start, the
\* service is marked not running and dummy workers take over its input queue:
\* a request that waits on the queue after the start, no response to it
\* being under way, is answered under its own request id with 'Service stopped due to startup timeout.' and does not
\* wait for ever.
C40_StartupFailureAnswered ==
    (/\ StartupFailed
     /\ c_pc[1] = "loop"
     /\ ~ResponsePublished(1)
     /\ \E i \in 1..Len(input_q) : input_q[i].id = c_req_id[1])
        ~> (/\ c_pc[1] = "idle"
            /\ c_ret[1].state = "OK"
            /\ c_ret[1].id = c_req_id[1]
            /\ Len(c_ret[1].val) = 1
            /\ c_ret[1].val[1].out = DummyOutput(STARTUP_MESSAGE))
\* the same for a start whose dummy workers are alive when start() returns
C40_AnsweredWhileDummyLives ==
    (/\ StartupFailed
     /\ \E d \in Threads : d_pc[d] # "none"
     /\ c_pc[1] = "loop"
     /\ ~ResponsePublished(1)
     /\ \E i \in 1..Len(input_q) : input_q[i].id = c_req_id[1])
        ~> (/\ c_pc[1] = "idle"
            /\ c_ret[1].state = "OK"
            /\ Len(c_ret[1].val) = 1
            /\ c_ret[1].val[1].out = DummyOutput(STARTUP_MESSAGE))

====
